---- MODULE Spec2Model ----
(***************************************************************************)
(* The lease engine of proxycarev2: the in-memory per-source pools, the    *)
(* streaming sessions of /ws/proxies and /ws/proxy_multi, the connection   *)
(* registry, the call_later cool-down returns and the control routes       *)
(* /proxies/refresh and /proxies/pools/{source_id}/add.                    *)
(*                                                                         *)
(* A subscription key is ",".join(source_ids); it is modelled by the list  *)
(* of source ids itself ("," in key  <=>  the list has two or more ids,    *)
(* key.split(",") = the list, the key "" = the empty list).                *)
(***************************************************************************)
EXTENDS Integers, Sequences, FiniteSets, Bags, TLC

\* ---------------------------------------------------------------- bounds
\* cap on cool-down returns pending at once (guards the pop)
MaxTimers == 2
\* cap on the pool length at which POST .../add is still issued
MaxPool == 2

\* ------------------------------------------------------------- universe
\* the websocket objects (one streaming connection each)
Sess == {"a", "b", "c"}
\* the source ids clients and routes use (strings, as the pool keys are)
SourceKeys == {"1", "2", "3", "4"}
\* the subscription lists a client may send as source_ids
SubLists == {<<"1">>, <<"1", "2">>}
\* str(sourceId): the pool key of a record's integer sourceId
Str(n) == IF n = 1 THEN "1" ELSE IF n = 2 THEN "2" ELSE "3"

\* a Python str that is not a Fernet token
Plain(text) == [type |-> "str", text |-> text]
\* a JSON number
Number(n) == [type |-> "int", number |-> n]

\* the rows of table proxies (models.Proxy): usage_interval is a nullable
\* Integer column, "None" is the SQL NULL; proxy is the credential string.
\* The rows are listed as a query without ORDER BY returns them.
Store ==
  << [id |-> 1, sourceid |-> 1, usage_interval |-> "30", priority |-> 90,
      proxy |-> Plain("10.0.0.1:3128:u1:pw1")],
     [id |-> 2, sourceid |-> 2, usage_interval |-> "None", priority |-> 80,
      proxy |-> Plain("10.0.0.2:3128:u2:pw2")],
     [id |-> 7, sourceid |-> 3, usage_interval |-> "30", priority |-> 50,
      proxy |-> Plain("10.0.0.7:3128:u7:pw7")],
     [id |-> 8, sourceid |-> 3, usage_interval |-> "30", priority |-> 90,
      proxy |-> Plain("10.0.0.8:3128:u8:pw8")] >>

\* proxy_data of RedisCache.load_all_proxies: no usage_interval key
CacheRecord(row) ==
  [id |-> row.id, proxy |-> row.proxy, sourceId |-> row.sourceid,
   usage_interval |-> "absent"]

\* proxy_data of load_proxies_for_sources: usage_interval copied from the row
SourceRecord(row) ==
  [id |-> row.id, proxy |-> row.proxy, sourceId |-> row.sourceid,
   usage_interval |-> row.usage_interval]

\* the request bodies POST /proxies/pools/{source_id}/add is called with
AddBodies ==
  { [id |-> 1, proxy |-> Plain("10.0.0.1:3128:u1:pw1"), sourceId |-> 1,
     usage_interval |-> "30"],
    [id |-> 4, sourceId |-> 1, usage_interval |-> "None"] }

\* ------------------------------------------------------ sequence helpers
RECURSIVE IndexIn(_, _, _)
\* the first index >= i of x in seq, 0 when absent
IndexIn(seq, x, i) ==
  IF i > Len(seq) THEN 0
  ELSE IF seq[i] = x THEN i ELSE IndexIn(seq, x, i + 1)

\* list.remove(x): drops the first occurrence
ListRemove(seq, x) ==
  LET i == IndexIn(seq, x, 1) IN
  IF i = 0 THEN seq
  ELSE SubSeq(seq, 1, i - 1) \o SubSeq(seq, i + 1, Len(seq))

InSeq(seq, x) == \E i \in 1..Len(seq) : seq[i] = x

\* proxy.get('usage_interval', 30): the default applies only to a missing key
UsageInterval(proxy) ==
  IF proxy.usage_interval = "absent" THEN "30" ELSE proxy.usage_interval

\* --------------------------------------------------------------- crypto
\* bool(value) of a value of the field proxy
Truthy(value) ==
  IF "text" \in DOMAIN value THEN value.text # ""
  ELSE IF "number" \in DOMAIN value THEN value.number # 0
  ELSE TRUE

\* get_encryption_key: PBKDF2 of the secret with a static salt
get_encryption_key(secret_key) == [pbkdf2 |-> secret_key]

\* Fernet(key).encrypt(value.encode()).decode(): a token, a str that holds the
\* plaintext under the key
fernet_encrypt(key, value) == [type |-> "str", fernet |-> value, key |-> key]

\* value.encode() raises AttributeError unless value is a str
CanEncode(value) == value.type = "str"

\* Fernet(key).decrypt raises InvalidToken unless the token was made with key
CanDecrypt(key, value) ==
  CanEncode(value) /\ "fernet" \in DOMAIN value /\ value.key = key

\* encrypt_proxy, were the flag set whether or not the credential was encrypted
encrypt_proxy_flagged(proxy_data, secret) ==
  IF secret = "" THEN proxy_data
  ELSE [f \in DOMAIN proxy_data \cup {"_encrypted"} |->
          IF f = "_encrypted" THEN TRUE
          ELSE IF f = "proxy" /\ Truthy(proxy_data.proxy) /\ CanEncode(proxy_data.proxy)
          THEN fernet_encrypt(get_encryption_key(secret), proxy_data.proxy)
          ELSE proxy_data[f]]

\* encrypt_proxy: the record itself without a secret or when the try block
\* raises; else a copy, with the credential encrypted and the flag set when
\* the record has a truthy credential
encrypt_proxy(proxy_data, secret) ==
  IF secret = "" THEN proxy_data
  ELSE IF "proxy" \in DOMAIN proxy_data /\ Truthy(proxy_data.proxy)
  THEN IF ~CanEncode(proxy_data.proxy) THEN proxy_data
       ELSE [f \in DOMAIN proxy_data \cup {"_encrypted"} |->
               IF f = "_encrypted" THEN TRUE
               ELSE IF f = "proxy"
               THEN fernet_encrypt(get_encryption_key(secret), proxy_data.proxy)
               ELSE proxy_data[f]]
  ELSE proxy_data

\* dict without the key _encrypted
Unflagged(proxy_data) ==
  [f \in DOMAIN proxy_data \ {"_encrypted"} |-> proxy_data[f]]

\* decrypt_proxy, were the credential handed back as it came
decrypt_proxy_raw(proxy_data, secret) ==
  IF ~("_encrypted" \in DOMAIN proxy_data /\ proxy_data._encrypted = TRUE)
  THEN proxy_data
  ELSE Unflagged(proxy_data)

\* decrypt_proxy: the record as it is unless proxy_data.get('_encrypted', False);
\* else a copy without the flag, with the credential decrypted, or with the
\* credential as it came when the try block raises
decrypt_proxy(proxy_data, secret) ==
  IF ~("_encrypted" \in DOMAIN proxy_data /\ proxy_data._encrypted = TRUE)
  THEN proxy_data
  ELSE IF "proxy" \in DOMAIN proxy_data /\ Truthy(proxy_data.proxy)
  THEN IF CanDecrypt(get_encryption_key(secret), proxy_data.proxy)
       THEN [Unflagged(proxy_data) EXCEPT !.proxy = proxy_data.proxy.fernet]
       ELSE Unflagged(proxy_data)
  ELSE Unflagged(proxy_data)

\* ---------------------------------------------------------------- state
VARIABLES
  started,             \* startup_event has run
  cache,               \* RedisCache: proxies:all and proxies:source:{id}
  proxy_pools,         \* ws_proxy.proxy_pools: key -> deque
  pool_keys,           \* the keys of proxy_pools, in insertion order
  timers,              \* bag of pending call_later returns
  active_connections,  \* ConnectionManager.active_connections (ordered dict)
  connection_states,   \* ConnectionManager.connection_states
  client_state,        \* WebSocket.client_state
  peer,                \* the client end of each connection
  ws,                  \* per connection: position of its handler and locals
  statistics,          \* the rows of table statistics, in commit order
  blocked,             \* column blocked of table proxies, per scheduler row id
  fetch,               \* per caller of Scheduler.get_proxies_from_db: its position
  redis,               \* the scheduler's sorted set of each source
  depth,               \* limit_recursion's wrapper.depth, per process
  call,                \* per request of /get_proxy: its position in get_proxy
  lastOp               \* the operation performed by the last step

vars == << started, cache, proxy_pools, pool_keys, timers, active_connections,
           connection_states, client_state, peer, ws, statistics, blocked, fetch,
           redis, depth, call, lastOp >>

\* the relational store: what the lease engine's streaming steps leave alone
db_vars == << statistics, blocked, fetch, redis, depth, call >>

\* ------------------------------------------------------ the registry
\* R = [ac |-> active_connections, cs |-> connection_states]

RECURSIVE KeyIndex(_, _, _)
KeyIndex(ac, key, i) ==
  IF i > Len(ac) THEN 0
  ELSE IF ac[i].key = key THEN i ELSE KeyIndex(ac, key, i + 1)

\* active_connections.get(key, [])
ConnsOf(ac, key) ==
  LET i == KeyIndex(ac, key, 1) IN IF i = 0 THEN <<>> ELSE ac[i].conns

\* the websocket is in some list of the registry
Attached(ac, w) == \E i \in 1..Len(ac) : InSeq(ac[i].conns, w)

connect(R, w, key) ==
  LET i == KeyIndex(R.ac, key, 1) IN
  [ac |-> IF i = 0
          THEN Append(R.ac, [key |-> key, conns |-> <<w>>])
          ELSE [R.ac EXCEPT ![i].conns = Append(@, w)],
   cs |-> [R.cs EXCEPT ![w] = "connected"]]

disconnect(R, w, key) ==
  LET i == KeyIndex(R.ac, key, 1) IN
  IF i = 0 \/ ~InSeq(ConnsOf(R.ac, key), w) THEN R
  ELSE LET conns == ListRemove(R.ac[i].conns, w) IN
       [ac |-> IF conns = <<>>
               THEN SubSeq(R.ac, 1, i - 1) \o SubSeq(R.ac, i + 1, Len(R.ac))
               ELSE [R.ac EXCEPT ![i].conns = conns],
        cs |-> [R.cs EXCEPT ![w] = "none"]]

is_connected(cs, w) == cs[w] = "connected" /\ client_state[w] = "CONNECTED"

\* the try body of ConnectionManager.send_json once is_connected held:
\* await websocket.send_json(message), message.get("key", "") being msgkey.
\* A peer that is gone makes it raise WebSocketDisconnect ("gone_wsd": the
\* state is marked and disconnect(websocket, msgkey) runs) or some other
\* exception ("gone_err": only logged).
websocket_send(R, w, msgkey) ==
  IF peer[w] = "up"
  THEN [R |-> R, ok |-> TRUE]
  ELSE IF peer[w] = "gone_wsd"
  THEN [R |-> disconnect([R EXCEPT !.cs[w] = "disconnected"], w, msgkey),
        ok |-> FALSE]
  ELSE [R |-> R, ok |-> FALSE]

\* ConnectionManager.send_json(websocket, message)
send_json(R, w, msgkey) ==
  IF is_connected(R.cs, w)
  THEN websocket_send(R, w, msgkey)
  ELSE [R |-> IF R.cs[w] # "none" THEN [R EXCEPT !.cs[w] = "disconnected"] ELSE R,
        ok |-> FALSE]

Registry == [ac |-> active_connections, cs |-> connection_states]

\* ------------------------------------------------------ pools and cache
RowsOf(sid) == SelectSeq(Store, LAMBDA row : Str(row.sourceid) = sid)

MapSeq(seq, F(_)) == [i \in 1..Len(seq) |-> F(seq[i])]

\* the keys of a dict after d[k] = v
KeysWith(keys, k) == IF InSeq(keys, k) THEN keys ELSE Append(keys, k)

RECURSIVE GroupInto(_, _, _)
\* initialize_proxy_pools: temp[str(sourceId)].append(proxy) for every cached
\* record, then proxy_pools[src] = deque(plist) for every src of temp
GroupInto(P, all, i) ==
  IF i > Len(all) THEN P
  ELSE LET src == Str(all[i].sourceId)
           seen == InSeq(P.temp, src) IN
       GroupInto([temp |-> KeysWith(P.temp, src),
                  pools |-> [P.pools EXCEPT ![src] =
                               IF seen THEN Append(@, all[i]) ELSE <<all[i]>>]],
                 all, i + 1)

RECURSIVE AddKeys(_, _, _)
AddKeys(keys, new, i) ==
  IF i > Len(new) THEN keys ELSE AddKeys(KeysWith(keys, new[i]), new, i + 1)

initialize_proxy_pools(pools, keys, all) ==
  LET P == GroupInto([temp |-> <<>>, pools |-> pools], all, 1) IN
  [pools |-> P.pools, keys |-> AddKeys(keys, P.temp, 1)]

\* priority_group = proxy.priority // 10 * 10
PriorityGroup(row) == (row.priority \div 10) * 10
\* the groups that have a list proxies:priority:{group}
Bands == {PriorityGroup(Store[i]) : i \in 1..Len(Store)}
\* the rows pushed to proxies:priority:{g} (if proxy.priority: ...)
RowsIn(g) == SelectSeq(Store, LAMBDA row : row.priority # 0 /\ PriorityGroup(row) = g)

\* RedisCache.load_all_proxies: proxies:all is deleted and rewritten, the
\* proxies:source:{id} and proxies:priority:{group} lists are only appended to
load_all_proxies(c) ==
  [all |-> MapSeq(Store, CacheRecord),
   source |-> [k \in SourceKeys |->
                 c.source[k] \o MapSeq(RowsOf(k), CacheRecord)],
   priority |-> [g \in Bands |->
                   c.priority[g] \o MapSeq(RowsIn(g), CacheRecord)]]

\* RedisCache.clear_cache
clear_cache(c) ==
  [all |-> <<>>, source |-> [k \in SourceKeys |-> <<>>],
   priority |-> [g \in Bands |-> <<>>]]

\* RedisCache.refresh_cache
refresh_cache(c) == load_all_proxies(clear_cache(c))

\* ------------------------------------------------- broadcast iterations
\* D counts, per websocket, the frames of the current broadcast it was sent
NoDelivery == [w \in Sess |-> 0]

RECURSIVE SendToList(_, _, _, _, _, _)
\* for connection in <the list registered under listkey>: if connection != ws:
\*     await manager.send_json(connection, {..., "key": msgkey})
\* The loop walks the live list by position: a send that detaches a
\* connection shortens the list under the iterator.
SendToList(R, D, listkey, i, sender, msgkey) ==
  LET conns == ConnsOf(R.ac, listkey) IN
  IF i > Len(conns) THEN [R |-> R, D |-> D]
  ELSE LET c == conns[i] IN
       IF c = sender
       THEN SendToList(R, D, listkey, i + 1, sender, msgkey)
       ELSE LET r == send_json(R, c, msgkey) IN
            SendToList(r.R, IF r.ok THEN [D EXCEPT ![c] = @ + 1] ELSE D,
                       listkey, i + 1, sender, msgkey)

RECURSIVE SendToMulti(_, _, _, _, _, _)
\* for multi_key, connections in manager.active_connections.items():
\*     if "," in multi_key and proxy_source in multi_key.split(","): ...
\* keys0 are the keys when the iteration began; a dict whose size changed
\* makes the next step of the iterator raise RuntimeError, which
\* handle_incoming catches (returning True).
SendToMulti(R, D, keys0, j, sender, src) ==
  IF Len(R.ac) # Len(keys0) THEN [R |-> R, D |-> D, aborted |-> TRUE]
  ELSE IF j > Len(keys0) THEN [R |-> R, D |-> D, aborted |-> FALSE]
  ELSE LET key == keys0[j] IN
       IF Len(key) > 1 /\ InSeq(key, src)
       THEN LET r == SendToList(R, D, key, 1, sender, key) IN
            SendToMulti(r.R, r.D, keys0, j + 1, sender, src)
       ELSE SendToMulti(R, D, keys0, j + 1, sender, src)

RECURSIVE LookupSource(_, _, _, _)
\* for src, pool in proxy_pools.items(): for proxy in pool:
\*     if proxy.get('id') == proxy_id: proxy_source = src
\* "" stands for None
LookupSource(pools, keys, proxy_id, i) ==
  IF i > Len(keys) THEN ""
  ELSE IF \E n \in 1..Len(pools[keys[i]]) : pools[keys[i]][n].id = proxy_id
       THEN keys[i]
       ELSE LookupSource(pools, keys, proxy_id, i + 1)

\* the proxy_taken branch of handle_incoming
proxy_taken(R, pools, keys, sender, proxy_id) ==
  LET src == LookupSource(pools, keys, proxy_id, 1) IN
  IF src = ""
  THEN [R |-> R, D |-> NoDelivery, source |-> src, aborted |-> FALSE]
  ELSE LET r1 == SendToList(R, NoDelivery, <<src>>, 1, sender, <<src>>)
           r2 == SendToMulti(r1.R, r1.D, MapSeq(r1.R.ac, LAMBDA e : e.key),
                             1, sender, src)
       IN [R |-> r2.R, D |-> r2.D, source |-> src, aborted |-> r2.aborted]

RECURSIVE BroadcastSend(_, _, _, _, _)
\* ConnectionManager.broadcast: the sends over the snapshot of the list
BroadcastSend(R, D, conns, i, failed) ==
  IF i > Len(conns) THEN [R |-> R, D |-> D, failed |-> failed]
  ELSE LET r == send_json(R, conns[i], <<>>) IN
       BroadcastSend(r.R, IF r.ok THEN [D EXCEPT ![conns[i]] = @ + 1] ELSE D,
                     conns, i + 1,
                     IF r.ok THEN failed ELSE Append(failed, conns[i]))

RECURSIVE DisconnectAll(_, _, _, _)
DisconnectAll(R, failed, i, key) ==
  IF i > Len(failed) THEN R
  ELSE DisconnectAll(disconnect(R, failed[i], key), failed, i + 1, key)

\* ConnectionManager.broadcast(message, key), the message carrying no "key"
broadcast(R, key) ==
  LET r == BroadcastSend(R, NoDelivery, ConnsOf(R.ac, key), 1, <<>>) IN
  [R |-> DisconnectAll(r.R, r.failed, 1, key), D |-> r.D]

RECURSIVE load_proxies_for_sources(_, _, _)
\* load_proxies_for_sources(source_ids): per source with rows in the store,
\* proxies:source:{id} is rewritten and the pool cleared and reloaded
load_proxies_for_sources(S, source_ids, i) ==
  IF i > Len(source_ids) THEN S
  ELSE LET sid == source_ids[i]
           recs == MapSeq(RowsOf(sid), SourceRecord) IN
       IF recs = <<>>
       THEN load_proxies_for_sources(S, source_ids, i + 1)
       ELSE load_proxies_for_sources(
              [cache |-> [S.cache EXCEPT !.source[sid] = recs],
               pools |-> [S.pools EXCEPT ![sid] = recs],
               keys |-> KeysWith(S.keys, sid)],
              source_ids, i + 1)

\* ------------------------------------------------------------ the store
\* the rows of table statuses (models.Status.statusCode)
Statuses == {200, 429}
\* the status_code values a client reports (418 has no row in statuses)
ReportCodes == {200, 418}
\* the proxy_id values a client reports (999999 has no row in proxies)
ReportIds == {1, 999999}

\* the rows of table proxies the scheduler's queries read
ProxyRows ==
  << [id |-> 1, sourceid |-> 1, priority |-> 90],
     [id |-> 2, sourceid |-> 1, priority |-> 80],
     [id |-> 3, sourceid |-> 1, priority |-> 70] >>
RowIds == {ProxyRows[i].id : i \in 1..Len(ProxyRows)}
\* the processes that call Scheduler.get_proxies_from_db
Callers == {"api", "celery"}
\* the proxies_amount values of the callers (send_batch_to_redis, unblock_proxy)
Amounts == {1, 2}
NoFetch == [pc |-> "idle", source_id |-> 0, proxies_amount |-> 0, data |-> <<>>]
\* the source ids the scheduler keeps a sorted set for
SchedSources == {1}
\* the worker processes that serve /get_proxy
Requests == {"r1", "r2"}
NoCall == [pc |-> "idle", source_id |-> 0, level |-> 0, batches |-> 0, data |-> <<>>]

\* ---------------------------------------------------------------- Init
NewSocket ==
  [pc |-> "idle", path |-> "", token |-> "", source_ids |-> <<>>,
   transit |-> <<>>, close_code |-> 0, frames |-> <<>>]

Init ==
  /\ started = FALSE
  /\ cache = [all |-> <<>>, source |-> [k \in SourceKeys |-> <<>>],
              priority |-> [g \in Bands |-> <<>>]]
  /\ proxy_pools = [k \in SourceKeys |-> <<>>]
  /\ pool_keys = <<>>
  /\ timers = EmptyBag
  /\ active_connections = <<>>
  /\ connection_states = [w \in Sess |-> "none"]
  /\ client_state = [w \in Sess |-> "CONNECTING"]
  /\ peer = [w \in Sess |-> "up"]
  /\ ws = [w \in Sess |-> NewSocket]
  /\ statistics = <<>>
  /\ blocked = [id \in RowIds |-> FALSE]
  /\ fetch = [p \in Callers |-> NoFetch]
  /\ redis = [source_id \in SchedSources |-> {}]
  /\ depth = [p \in Requests |-> 0]
  /\ call = [p \in Requests |-> NoCall]
  /\ lastOp = [op |-> "init"]

\* ------------------------------------------------------- control plane
\* main.startup_event
startup_event ==
  /\ ~started
  /\ started' = TRUE
  /\ cache' = load_all_proxies(cache)
  /\ LET P == initialize_proxy_pools(proxy_pools, pool_keys, cache'.all) IN
       /\ proxy_pools' = P.pools
       /\ pool_keys' = P.keys
  /\ lastOp' = [op |-> "startup"]
  /\ UNCHANGED << db_vars, timers, active_connections, connection_states,
                  client_state, peer, ws >>

\* cap on the runs of load_all_proxies without a clear_cache in between
MaxLoads == 2

\* the runs of load_all_proxies since the cache was last cleared, read off
\* the priority list of the first row (only load_all_proxies writes to it)
Loads(c) ==
  Len(c.priority[PriorityGroup(Store[1])]) \div Len(RowsIn(PriorityGroup(Store[1])))

\* the broker process is stopped: its memory (pools, callbacks, registry,
\* sockets) is gone, the cache in Redis stays
shutdown ==
  /\ started
  /\ Loads(cache) < MaxLoads
  /\ started' = FALSE
  /\ proxy_pools' = [k \in SourceKeys |-> <<>>]
  /\ pool_keys' = <<>>
  /\ timers' = EmptyBag
  /\ active_connections' = <<>>
  /\ connection_states' = [w \in Sess |-> "none"]
  /\ client_state' = [w \in Sess |-> "CONNECTING"]
  /\ peer' = [w \in Sess |-> "up"]
  /\ ws' = [w \in Sess |-> NewSocket]
  /\ lastOp' = [op |-> "shutdown"]
  /\ UNCHANGED << db_vars, cache >>

\* routes.refresh_proxy_pools (GET /proxies/refresh)
refresh_proxy_pools ==
  /\ started
  /\ cache' = refresh_cache(cache)
  /\ LET P == initialize_proxy_pools(proxy_pools, pool_keys, cache'.all) IN
       /\ proxy_pools' = P.pools
       /\ pool_keys' = P.keys
  /\ lastOp' = [op |-> "refresh", pools |-> Len(pool_keys')]
  /\ UNCHANGED << db_vars, started, timers, active_connections, connection_states,
                  client_state, peer, ws >>

\* routes.add_proxy_to_pool (POST /proxies/pools/{source_id}/add)
add_proxy_to_pool(source_id, proxy_data) ==
  /\ started
  /\ Len(proxy_pools[source_id]) < MaxPool
  /\ proxy_pools' = [proxy_pools EXCEPT ![source_id] = Append(@, proxy_data)]
  /\ pool_keys' = KeysWith(pool_keys, source_id)
  /\ LET r == broadcast(Registry, <<source_id>>) IN
       /\ active_connections' = r.R.ac
       /\ connection_states' = r.R.cs
       /\ lastOp' = [op |-> "add", source_id |-> source_id, proxy |-> proxy_data,
                     pool_size |-> Len(proxy_pools'[source_id]), delivered |-> r.D]
  /\ UNCHANGED << db_vars, started, cache, timers, client_state, peer, ws >>

\* TimerFire, were the callback to put the record at the head of the pool
TimerFire_atHead(e) ==
  /\ BagIn(e, timers)
  /\ timers' = timers (-) SetToBag({e})
  /\ proxy_pools' = [proxy_pools EXCEPT ![e.sid] = <<e.proxy>> \o @]
  /\ lastOp' = [op |-> "timer_fire", timer |-> e]
  /\ UNCHANGED << db_vars, started, cache, pool_keys, active_connections,
                  connection_states, client_state, peer, ws >>

\* the callback armed by call_later: proxy_pools[s].append(p)
TimerFire(e) ==
  /\ BagIn(e, timers)
  /\ timers' = timers (-) SetToBag({e})
  /\ proxy_pools' = [proxy_pools EXCEPT ![e.sid] = Append(@, e.proxy)]
  /\ lastOp' = [op |-> "timer_fire", timer |-> e]
  /\ UNCHANGED << db_vars, started, cache, pool_keys, active_connections,
                  connection_states, client_state, peer, ws >>

\* ------------------------------------------------------------ handshake
\* os.environ.get("SECRET")
SECRET == "s3cret"
\* the connection carries no token query parameter
NoToken == "<missing>"
Tokens == {SECRET, "wrong", NoToken}
Paths == {"proxies", "proxy_multi"}
\* the first inbound frame: not a JSON object / an object failing the
\* endpoint's test / a start frame with integer ids / with string ids
FrameKinds == {"nonobject", "bad_start", "start_int", "start"}

\* Depends(check_websocket_token) with token = Query(...): a missing
\* parameter is refused before the function runs, a differing one raises
check_websocket_token(token) ==
  IF token = NoToken THEN "refused"
  ELSE IF token # SECRET THEN "raised" ELSE "ok"

\* the dependencies an endpoint declares
Authenticate(path, token) ==
  IF path = "proxy_multi" THEN check_websocket_token(token) ELSE "ok"

\* a client opens a connection: dependencies, then await websocket.accept()
Connect(s, path, token) ==
  /\ started
  /\ ws[s].pc = "idle"
  /\ LET auth == Authenticate(path, token) IN
       IF auth = "ok"
       THEN /\ ws' = [ws EXCEPT ![s] = [@ EXCEPT !.pc = "first", !.path = path,
                                                 !.token = token]]
            /\ client_state' = [client_state EXCEPT ![s] = "CONNECTED"]
       ELSE /\ ws' = [ws EXCEPT ![s] =
                        [@ EXCEPT !.pc = "closed", !.path = path, !.token = token,
                                  !.close_code = IF auth = "refused" THEN 1008 ELSE 0]]
            /\ client_state' = [client_state EXCEPT ![s] = "DISCONNECTED"]
  /\ lastOp' = [op |-> "connect", ws |-> s, path |-> path, token |-> token]
  /\ UNCHANGED << db_vars, started, cache, proxy_pools, pool_keys, timers,
                  active_connections, connection_states, peer >>

\* the client end goes away (mode: what a later send to it raises)
PeerDrop(s, mode) ==
  /\ ws[s].pc \in {"first", "loop", "dispatch", "sending"}
  /\ peer[s] = "up"
  /\ peer' = [peer EXCEPT ![s] = mode]
  /\ lastOp' = [op |-> "peer_drop", ws |-> s]
  /\ UNCHANGED << db_vars, started, cache, proxy_pools, pool_keys, timers,
                  active_connections, connection_states, client_state, ws >>

\* websocket_proxy_multi / websocket_proxies up to the call of
\* multi_source_proxy_provider, which attaches: manager.connect(websocket, key)
FirstFrame(s, kind, subs) ==
  /\ ws[s].pc = "first"
  /\ peer[s] = "up"
  /\ lastOp' = [op |-> "first_frame", ws |-> s, kind |-> kind]
  /\ UNCHANGED << db_vars, started, timers, client_state, peer >>
  /\ IF kind = "bad_start"
     THEN \* send_json({"action": "error", ...}); close(code=1008); return
          /\ ws' = [ws EXCEPT ![s] = [@ EXCEPT !.pc = "closed", !.close_code = 1008,
                                               !.frames = <<"error">>]]
          /\ UNCHANGED << cache, proxy_pools, pool_keys, active_connections,
                          connection_states >>
     ELSE IF kind = "nonobject"
     THEN \* msg.get raises: proxy_multi logs it, proxies closes with 1011
          /\ ws' = [ws EXCEPT ![s] =
                      [@ EXCEPT !.pc = "closed",
                                !.close_code = IF ws[s].path = "proxies"
                                               THEN 1011 ELSE 0]]
          /\ UNCHANGED << cache, proxy_pools, pool_keys, active_connections,
                          connection_states >>
     ELSE IF kind = "start_int" /\ ws[s].path = "proxy_multi"
     THEN \* ",".join(source_ids) raises TypeError before the attach
          /\ ws' = [ws EXCEPT ![s] = [@ EXCEPT !.pc = "closed"]]
          /\ UNCHANGED << cache, proxy_pools, pool_keys, active_connections,
                          connection_states >>
     ELSE LET S0 == [cache |-> cache, pools |-> proxy_pools, keys |-> pool_keys]
              S == IF ws[s].path = "proxies"
                   THEN load_proxies_for_sources(S0, subs, 1) ELSE S0
              R == connect(Registry, s, subs)
          IN /\ cache' = S.cache
             /\ proxy_pools' = S.pools
             /\ pool_keys' = S.keys
             /\ active_connections' = R.ac
             /\ connection_states' = R.cs
             /\ ws' = [ws EXCEPT ![s] =
                         [@ EXCEPT !.pc = "loop", !.source_ids = subs,
                                   !.frames = IF ws[s].path = "proxies"
                                              THEN <<"sources_loaded">> ELSE <<>>]]

\* the first receive_json raises WebSocketDisconnect: both endpoints log it
FirstFrameGone(s) ==
  /\ ws[s].pc = "first"
  /\ peer[s] # "up"
  /\ client_state' = [client_state EXCEPT ![s] = "DISCONNECTED"]
  /\ ws' = [ws EXCEPT ![s] = [@ EXCEPT !.pc = "closed"]]
  /\ lastOp' = [op |-> "first_frame_gone", ws |-> s]
  /\ UNCHANGED << db_vars, started, cache, proxy_pools, pool_keys, timers,
                  active_connections, connection_states, peer >>

\* ------------------------------------- multi_source_proxy_provider loop
\* Finally, were the detach to name another key than the session's own
Finally_otherKey(R, s) == disconnect(R, s, <<>>)

\* finally: manager.disconnect(websocket, key)
Finally(R, s) == disconnect(R, s, ws[s].source_ids)

\* while manager.is_connected(websocket) fails, or handle_incoming finds the
\* socket not connected and returns False: the loop ends
LoopExit(s) ==
  /\ ws[s].pc = "loop"
  /\ ~is_connected(connection_states, s)
  /\ LET R == Finally(Registry, s) IN
       /\ active_connections' = R.ac
       /\ connection_states' = R.cs
  /\ ws' = [ws EXCEPT ![s] = [@ EXCEPT !.pc = "closed"]]
  /\ lastOp' = [op |-> "loop_exit", ws |-> s]
  /\ UNCHANGED << db_vars, started, cache, proxy_pools, pool_keys, timers, client_state,
                  peer >>

\* RecvDisconnect, were the finally block to cancel the session's pending
\* returns along with the detach
RecvDisconnect_cancelsReturns(s) ==
  /\ ws[s].pc = "loop"
  /\ is_connected(connection_states, s)
  /\ peer[s] # "up"
  /\ client_state' = [client_state EXCEPT ![s] = "DISCONNECTED"]
  /\ LET R == Finally(Registry, s) IN
       /\ active_connections' = R.ac
       /\ connection_states' = R.cs
  /\ timers' = [e \in {x \in BagToSet(timers) : x.ws # s} |-> timers[e]]
  /\ ws' = [ws EXCEPT ![s] = [@ EXCEPT !.pc = "closed"]]
  /\ lastOp' = [op |-> "recv_disconnect", ws |-> s]
  /\ UNCHANGED << db_vars, started, cache, proxy_pools, pool_keys, peer >>

\* handle_incoming: receive_json raises WebSocketDisconnect, returns False
RecvDisconnect(s) ==
  /\ ws[s].pc = "loop"
  /\ is_connected(connection_states, s)
  /\ peer[s] # "up"
  /\ client_state' = [client_state EXCEPT ![s] = "DISCONNECTED"]
  /\ LET R == Finally(Registry, s) IN
       /\ active_connections' = R.ac
       /\ connection_states' = R.cs
  /\ ws' = [ws EXCEPT ![s] = [@ EXCEPT !.pc = "closed"]]
  /\ lastOp' = [op |-> "recv_disconnect", ws |-> s]
  /\ UNCHANGED << db_vars, started, cache, proxy_pools, pool_keys, timers, peer >>

\* RecvNone, were the read to have no timeout: the handler keeps waiting for
\* a frame and the dispatch is not reached
RecvNone_blocks(s) ==
  /\ ws[s].pc = "loop"
  /\ is_connected(connection_states, s)
  /\ peer[s] = "up"
  /\ ws' = [ws EXCEPT ![s] = [@ EXCEPT !.pc = "loop"]]
  /\ lastOp' = [op |-> "recv_none", ws |-> s]
  /\ UNCHANGED << db_vars, started, cache, proxy_pools, pool_keys, timers,
                  active_connections, connection_states, client_state, peer >>

\* handle_incoming: the receive times out, or the frame is request_proxy
RecvNone(s) ==
  /\ ws[s].pc = "loop"
  /\ is_connected(connection_states, s)
  /\ peer[s] = "up"
  /\ ws' = [ws EXCEPT ![s] = [@ EXCEPT !.pc = "dispatch"]]
  /\ lastOp' = [op |-> "recv_none", ws |-> s]
  /\ UNCHANGED << db_vars, started, cache, proxy_pools, pool_keys, timers,
                  active_connections, connection_states, client_state, peer >>

\* the inbound frames handle_incoming has no branch for: text that is not
\* JSON, JSON that is not an object, an object with an action it does not know
MalformedKinds == {"invalid_json", "nonobject", "unknown_action"}

\* handle_incoming of such a frame: receive_json raises JSONDecodeError,
\* msg.get raises AttributeError (both end in "except Exception: return
\* True"), or no branch of the if matches; nothing is sent (replies: the
\* frames sent while the frame was handled)
RecvMalformed(s, kind) ==
  /\ ws[s].pc = "loop"
  /\ is_connected(connection_states, s)
  /\ peer[s] = "up"
  /\ ws' = [ws EXCEPT ![s] = [@ EXCEPT !.pc = "dispatch"]]
  /\ lastOp' = [op |-> "recv_malformed", ws |-> s, kind |-> kind, replies |-> <<>>]
  /\ UNCHANGED << db_vars, started, cache, proxy_pools, pool_keys, timers,
                  active_connections, connection_states, client_state, peer >>

\* the proxy ids a client names in proxy_taken (9 is no proxy at all)
TakenIds == {1, 2, 9}

\* the attached websockets other than the sender whose subscription has src
PeersFor(ac, sender, src) ==
  {w \in Sess \ {sender} : Attached(ac, w) /\ InSeq(ws[w].source_ids, src)}

\* ProxyTaken, were the server to enforce the notice by taking the proxy
\* out of the pool it was found in
ProxyTaken_enforces(s, proxy_id) ==
  /\ ws[s].pc = "loop"
  /\ is_connected(connection_states, s)
  /\ peer[s] = "up"
  /\ LET r == proxy_taken(Registry, proxy_pools, pool_keys, s, proxy_id) IN
       /\ active_connections' = r.R.ac
       /\ connection_states' = r.R.cs
       /\ proxy_pools' = [k \in SourceKeys |->
                            IF k = r.source
                            THEN SelectSeq(proxy_pools[k], LAMBDA p : p.id # proxy_id)
                            ELSE proxy_pools[k]]
       /\ lastOp' = [op |-> "proxy_taken", ws |-> s, proxy_id |-> proxy_id,
                     source |-> r.source, delivered |-> r.D,
                     peers |-> PeersFor(active_connections, s, r.source),
                     aborted |-> r.aborted]
  /\ ws' = [ws EXCEPT ![s] = [@ EXCEPT !.pc = "dispatch"]]
  /\ UNCHANGED << db_vars, started, cache, pool_keys, timers, client_state, peer >>

\* handle_incoming: the frame is {"action": "proxy_taken", "proxy_id": ...}
ProxyTaken(s, proxy_id) ==
  /\ ws[s].pc = "loop"
  /\ is_connected(connection_states, s)
  /\ peer[s] = "up"
  /\ LET r == proxy_taken(Registry, proxy_pools, pool_keys, s, proxy_id) IN
       /\ active_connections' = r.R.ac
       /\ connection_states' = r.R.cs
       /\ lastOp' = [op |-> "proxy_taken", ws |-> s, proxy_id |-> proxy_id,
                     source |-> r.source, delivered |-> r.D,
                     peers |-> PeersFor(active_connections, s, r.source),
                     aborted |-> r.aborted]
  /\ ws' = [ws EXCEPT ![s] = [@ EXCEPT !.pc = "dispatch"]]
  /\ UNCHANGED << db_vars, started, cache, proxy_pools, pool_keys, timers, client_state,
                  peer >>

\* for sid in source_ids: pool = proxy_pools.get(sid); if pool and pool
Servable(source_ids) == SelectSeq(source_ids, LAMBDA sid : proxy_pools[sid] # <<>>)

\* records popped and not yet back: on a timer or between pop and send
InFlight == BagCardinality(timers) + Cardinality({w \in Sess : ws[w].transit # <<>>})

\* Pop, were the record not pushed back when the socket is found not connected
Pop_dropsRecord(s) ==
  /\ ws[s].pc = "dispatch"
  /\ Servable(ws[s].source_ids) # <<>>
  /\ InFlight < MaxTimers
  /\ LET sid == Head(Servable(ws[s].source_ids))
         proxy == Head(proxy_pools[sid])
     IN IF is_connected(connection_states, s)
        THEN /\ proxy_pools' = [proxy_pools EXCEPT ![sid] = Tail(@)]
             /\ ws' = [ws EXCEPT ![s] =
                         [@ EXCEPT !.pc = "sending",
                                   !.transit = <<[proxy |-> proxy, sid |-> sid]>>]]
             /\ lastOp' = [op |-> "pop", ws |-> s, proxy |-> proxy, sid |-> sid]
             /\ UNCHANGED << active_connections, connection_states >>
        ELSE /\ proxy_pools' = [proxy_pools EXCEPT ![sid] = Tail(@)]
             /\ LET R == Finally(Registry, s) IN
                  /\ active_connections' = R.ac
                  /\ connection_states' = R.cs
             /\ ws' = [ws EXCEPT ![s] = [@ EXCEPT !.pc = "closed"]]
             /\ lastOp' = [op |-> "restore", ws |-> s, proxy |-> proxy, sid |-> sid]
  /\ UNCHANGED << db_vars, started, cache, pool_keys, timers, client_state, peer >>

\* for sid in source_ids: the first source whose pool is not empty is served
\* (idx stays 0); proxy = pool.popleft(), then the is_connected check
Pop(s) ==
  /\ ws[s].pc = "dispatch"
  /\ Servable(ws[s].source_ids) # <<>>
  /\ InFlight < MaxTimers
  /\ LET sid == Head(Servable(ws[s].source_ids))
         proxy == Head(proxy_pools[sid])
     IN IF is_connected(connection_states, s)
        THEN /\ proxy_pools' = [proxy_pools EXCEPT ![sid] = Tail(@)]
             /\ ws' = [ws EXCEPT ![s] =
                         [@ EXCEPT !.pc = "sending",
                                   !.transit = <<[proxy |-> proxy, sid |-> sid]>>]]
             /\ lastOp' = [op |-> "pop", ws |-> s, proxy |-> proxy, sid |-> sid]
             /\ UNCHANGED << active_connections, connection_states >>
        ELSE \* pool.appendleft(proxy); return; finally: disconnect
             /\ proxy_pools' = [proxy_pools EXCEPT ![sid] = <<proxy>> \o Tail(@)]
             /\ LET R == Finally(Registry, s) IN
                  /\ active_connections' = R.ac
                  /\ connection_states' = R.cs
             /\ ws' = [ws EXCEPT ![s] = [@ EXCEPT !.pc = "closed"]]
             /\ lastOp' = [op |-> "restore", ws |-> s, proxy |-> proxy, sid |-> sid]
  /\ UNCHANGED << db_vars, started, cache, pool_keys, timers, client_state, peer >>

\* Waiting, were the frame sent whatever the pools hold
Waiting_always(s) ==
  /\ ws[s].pc = "dispatch"
  /\ LET r == send_json(Registry, s, ws[s].source_ids) IN
       /\ active_connections' = r.R.ac
       /\ connection_states' = r.R.cs
       /\ lastOp' = [op |-> "waiting", ws |-> s, sent |-> r.ok]
  /\ ws' = [ws EXCEPT ![s] = [@ EXCEPT !.pc = "loop"]]
  /\ UNCHANGED << db_vars, started, cache, proxy_pools, pool_keys, timers, client_state,
                  peer >>

\* the else of the for loop: the waiting frame, then asyncio.sleep(1)
Waiting(s) ==
  /\ ws[s].pc = "dispatch"
  /\ Servable(ws[s].source_ids) = <<>>
  /\ LET r == send_json(Registry, s, ws[s].source_ids) IN
       /\ active_connections' = r.R.ac
       /\ connection_states' = r.R.cs
       /\ lastOp' = [op |-> "waiting", ws |-> s, sent |-> r.ok]
  /\ ws' = [ws EXCEPT ![s] = [@ EXCEPT !.pc = "loop"]]
  /\ UNCHANGED << db_vars, started, cache, proxy_pools, pool_keys, timers, client_state,
                  peer >>

\* asyncio.get_event_loop().call_later(usage_interval, lambda ...): a delay
\* of None raises TypeError and nothing is scheduled
call_later(T, usage_interval, proxy, sid, s) ==
  IF usage_interval = "None" THEN T
  ELSE T (+) SetToBag({[proxy |-> proxy, sid |-> sid, ws |-> s]})

\* SendArm, were encrypt_proxy to encrypt the record it is given in place:
\* the callback would hold the encrypted record
SendArm_inPlace(s) ==
  /\ ws[s].pc = "sending"
  /\ LET t == ws[s].transit[1]
         usage_interval == UsageInterval(t.proxy)
         r == websocket_send(Registry, s, ws[s].source_ids)
         raised == usage_interval = "None"
         leave == raised /\ ~is_connected(r.R.cs, s)
         R == IF leave THEN Finally(r.R, s) ELSE r.R
     IN /\ timers' = call_later(timers, usage_interval,
                                encrypt_proxy(t.proxy, SECRET), t.sid, s)
        /\ active_connections' = R.ac
        /\ connection_states' = R.cs
        /\ ws' = [ws EXCEPT ![s] =
                    [@ EXCEPT !.pc = IF leave THEN "closed" ELSE "loop",
                              !.transit = <<>>]]
        /\ lastOp' = [op |-> "proxy_available", ws |-> s, proxy |-> t.proxy,
                      sid |-> t.sid, sent |-> r.ok, armed |-> ~raised,
                      payload |-> encrypt_proxy(t.proxy, SECRET)]
  /\ UNCHANGED << db_vars, started, cache, proxy_pools, pool_keys, client_state, peer >>

\* await manager.send_json(websocket, {"action": "proxy_available", ...}),
\* then call_later; its TypeError is caught by "except Exception", which
\* leaves the loop only if the socket is not connected
SendArm(s) ==
  /\ ws[s].pc = "sending"
  /\ LET t == ws[s].transit[1]
         usage_interval == UsageInterval(t.proxy)
         r == websocket_send(Registry, s, ws[s].source_ids)
         raised == usage_interval = "None"
         leave == raised /\ ~is_connected(r.R.cs, s)
         R == IF leave THEN Finally(r.R, s) ELSE r.R
     IN /\ timers' = call_later(timers, usage_interval, t.proxy, t.sid, s)
        /\ active_connections' = R.ac
        /\ connection_states' = R.cs
        /\ ws' = [ws EXCEPT ![s] =
                    [@ EXCEPT !.pc = IF leave THEN "closed" ELSE "loop",
                              !.transit = <<>>]]
        /\ lastOp' = [op |-> "proxy_available", ws |-> s, proxy |-> t.proxy,
                      sid |-> t.sid, sent |-> r.ok, armed |-> ~raised,
                      payload |-> encrypt_proxy(t.proxy, SECRET)]
  /\ UNCHANGED << db_vars, started, cache, proxy_pools, pool_keys, client_state, peer >>

\* ------------------------------------------------------------- reports
\* cap on the rows of statistics (guards the report_proxy frame)
MaxReports == 2

StoreIds == {Store[i].id : i \in 1..Len(Store)}

\* ProxyExists, were the existence check to let every proxy_id through
ProxyExists_any(proxy_id) == TRUE

\* db.query(Proxy).filter(Proxy.id == proxy_id).first()
ProxyExists(proxy_id) == proxy_id \in StoreIds

\* Statistic.statusid = Column(Integer, ForeignKey("statuses.statusCode")):
\* the commit of a row whose statusid has no row in statuses raises
ForeignKeyHolds(status_code) == status_code \in Statuses

\* the message texts of save_proxy_report and of the acknowledgement
NotExist(proxy_id) ==
  [text |-> "Proxy with ID <proxy_id> does not exist", proxy_id |-> proxy_id]
ErrorText == [text |-> "str(e)", proxy_id |-> 0]
SavedText == [text |-> "Report saved successfully", proxy_id |-> 0]

\* save_proxy_report, were it to report success without db.add / db.commit
save_proxy_report_uncommitted(stats, proxy_id, status_code) ==
  IF ~ProxyExists(proxy_id)
  THEN [statistics |-> stats, success |-> FALSE, message |-> NotExist(proxy_id)]
  ELSE IF ~ForeignKeyHolds(status_code)
  THEN [statistics |-> stats, success |-> FALSE, message |-> ErrorText]
  ELSE [statistics |-> stats, success |-> TRUE, message |-> SavedText]

\* save_proxy_report(proxy_id, status_code) -> (success, error message)
save_proxy_report(stats, proxy_id, status_code) ==
  IF ~ProxyExists(proxy_id)
  THEN [statistics |-> stats, success |-> FALSE, message |-> NotExist(proxy_id)]
  ELSE IF ~ForeignKeyHolds(status_code)
  THEN [statistics |-> stats, success |-> FALSE, message |-> ErrorText]
  ELSE [statistics |-> Append(stats, [proxyid |-> proxy_id,
                                      statusid |-> status_code]),
        success |-> TRUE, message |-> SavedText]

\* handle_incoming: the frame is {"action": "report_proxy", "proxy_id": ...,
\* "status_code": ...}; the acknowledgement carries no "key"
\* (after: the source whose record the session was sent in the step before
\* this one, "" if that step was not a dispatch of this session)
ReportProxy(s, proxy_id, status_code) ==
  /\ ws[s].pc = "loop"
  /\ is_connected(connection_states, s)
  /\ peer[s] = "up"
  /\ Len(statistics) < MaxReports
  /\ LET saved == save_proxy_report(statistics, proxy_id, status_code)
         r == send_json(Registry, s, <<>>)
     IN /\ statistics' = saved.statistics
        /\ active_connections' = r.R.ac
        /\ connection_states' = r.R.cs
        /\ lastOp' = [op |-> "report_proxy", ws |-> s, proxy_id |-> proxy_id,
                      status_code |-> status_code, acked |-> r.ok,
                      success |-> saved.success, message |-> saved.message,
                      after |-> IF lastOp.op = "proxy_available" /\ lastOp.ws = s
                                THEN lastOp.sid ELSE ""]
  /\ ws' = [ws EXCEPT ![s] = [@ EXCEPT !.pc = "dispatch"]]
  /\ UNCHANGED << blocked, fetch, redis, depth, call, started, cache, proxy_pools,
                  pool_keys, timers, client_state, peer >>

\* str(e) of the OperationalError of a store that cannot be reached
DownText == [text |-> "str(OperationalError)", proxy_id |-> 0]

\* ReportProxyDown, were the error to escape the handler: finally: disconnect
ReportProxyDown_fatal(s, proxy_id, status_code) ==
  /\ ws[s].pc = "loop"
  /\ is_connected(connection_states, s)
  /\ peer[s] = "up"
  /\ LET R == Finally(Registry, s) IN
        /\ active_connections' = R.ac
        /\ connection_states' = R.cs
        /\ lastOp' = [op |-> "report_store_down", ws |-> s, proxy_id |-> proxy_id,
                      status_code |-> status_code, acked |-> FALSE,
                      success |-> FALSE, message |-> DownText]
  /\ ws' = [ws EXCEPT ![s] = [@ EXCEPT !.pc = "closed"]]
  /\ UNCHANGED << db_vars, started, cache, proxy_pools, pool_keys, timers,
                  client_state, peer >>

\* handle_incoming of a report_proxy frame while the store cannot be reached:
\* db.query(...).first() raises, save_proxy_report's "except Exception"
\* returns (False, str(e)), and the acknowledgement is sent
ReportProxyDown(s, proxy_id, status_code) ==
  /\ ws[s].pc = "loop"
  /\ is_connected(connection_states, s)
  /\ peer[s] = "up"
  /\ LET r == send_json(Registry, s, <<>>) IN
        /\ active_connections' = r.R.ac
        /\ connection_states' = r.R.cs
        /\ lastOp' = [op |-> "report_store_down", ws |-> s, proxy_id |-> proxy_id,
                      status_code |-> status_code, acked |-> r.ok,
                      success |-> FALSE, message |-> DownText]
  /\ ws' = [ws EXCEPT ![s] = [@ EXCEPT !.pc = "dispatch"]]
  /\ UNCHANGED << db_vars, started, cache, proxy_pools, pool_keys, timers,
                  client_state, peer >>

\* ------------------------------------------------------ scheduler refill
\* what Scheduler.get_proxies_from_db leaves alone
engine_vars == << started, cache, proxy_pools, pool_keys, timers,
                  active_connections, connection_states, client_state, peer, ws >>

\* LIMIT n of a result
Limit(rows, n) == SubSeq(rows, 1, IF Len(rows) < n THEN Len(rows) ELSE n)

\* extract_query: SELECT * FROM proxies WHERE blocked = False AND
\* sourceId = {source_id} ORDER BY priority DESC LIMIT {proxies_amount}
\* (ProxyRows lists the rows by descending priority)
extract_query(B, source_id, proxies_amount) ==
  Limit(SelectSeq(ProxyRows, LAMBDA row : ~B[row.id] /\ row.sourceid = source_id),
        proxies_amount)

\* update_query: UPDATE proxies SET blocked = True WHERE id in (the same
\* SELECT, evaluated when the UPDATE runs)
update_query(B, source_id, proxies_amount) ==
  LET rows == extract_query(B, source_id, proxies_amount) IN
  [id \in RowIds |-> B[id] \/ \E i \in 1..Len(rows) : rows[i].id = id]

\* get_proxies_from_db up to rows = conn.execute_select_query(extract_query)
SelectRows(p, source_id, proxies_amount) ==
  /\ fetch[p].pc \in {"idle", "returned"}
  /\ fetch' = [fetch EXCEPT ![p] =
                 [pc |-> "selected", source_id |-> source_id,
                  proxies_amount |-> proxies_amount,
                  data |-> extract_query(blocked, source_id, proxies_amount)]]
  /\ lastOp' = [op |-> "select_rows", caller |-> p]
  /\ UNCHANGED << engine_vars, statistics, blocked, redis, depth, call >>

\* conn.execute_update_query(update_query), which commits; return data
BlockRows(p) ==
  /\ fetch[p].pc = "selected"
  /\ blocked' = update_query(blocked, fetch[p].source_id, fetch[p].proxies_amount)
  /\ fetch' = [fetch EXCEPT ![p].pc = "returned"]
  /\ lastOp' = [op |-> "get_proxies_from_db", caller |-> p, data |-> fetch[p].data]
  /\ UNCHANGED << engine_vars, statistics, redis, depth, call >>

\* celery_worker.unblock_proxy: UPDATE proxies SET blocked = false WHERE id = ...
UnblockRow(id) ==
  /\ blocked[id]
  /\ blocked' = [blocked EXCEPT ![id] = FALSE]
  /\ lastOp' = [op |-> "unblock_proxy", id |-> id]
  /\ UNCHANGED << engine_vars, statistics, fetch, redis, depth, call >>

\* ------------------------------------------------- scheduler get_proxy
\* @limit_recursion(10)
MaxDepth == 10
\* send_batch_to_redis(self, source_id, proxy_amount=10)
BatchAmount == 10

\* zpopmin in place of zpopmax
ZMax_lowest(set) == CHOOSE m \in set : \A n \in set : n.priority >= m.priority

\* zpopmax: the member of the highest score (the scores are the priorities)
ZMax(set) == CHOOSE m \in set : \A n \in set : n.priority <= m.priority

\* push_proxy_to_redis for each row of db_proxies: zadd(source_id, {json: priority})
push_proxy_to_redis(R, source_id, db_proxies) ==
  [R EXCEPT ![source_id] = @ \cup {db_proxies[i] : i \in 1..Len(db_proxies)}]

\* the frames of get_proxy return one through the other: every wrapper that
\* called func runs wrapper.depth -= 1
Return(p, result) ==
  /\ depth' = [depth EXCEPT ![p] = @ - call[p].level]
  /\ call' = [call EXCEPT ![p] = NoCall]
  /\ lastOp' = [op |-> "get_proxy", caller |-> p, source_id |-> call[p].source_id,
                found |-> TRUE, result |-> result, level |-> call[p].level,
                batches |-> call[p].batches]

\* limit_recursion.wrapper of the request's call up to func(*args)
GetProxy(p, source_id) ==
  /\ call[p].pc = "idle"
  /\ IF depth[p] = MaxDepth
     THEN /\ lastOp' = [op |-> "get_proxy", caller |-> p, source_id |-> source_id,
                        found |-> FALSE, result |-> "RecursionError",
                        level |-> 0, batches |-> 0]
          /\ UNCHANGED << depth, call >>
     ELSE /\ depth' = [depth EXCEPT ![p] = @ + 1]
          /\ call' = [call EXCEPT ![p] = [pc |-> "pop", source_id |-> source_id,
                                          level |-> 1, batches |-> 0, data |-> <<>>]]
          /\ lastOp' = [op |-> "enter_get_proxy", caller |-> p]
  /\ UNCHANGED << engine_vars, statistics, blocked, fetch, redis >>

\* get_proxy: proxy = redis.zpopmax(source_id); return proxy unless it is empty
ZPopMax(p) ==
  /\ call[p].pc = "pop"
  /\ LET source_id == call[p].source_id IN
     IF redis[source_id] # {}
     THEN /\ redis' = [redis EXCEPT ![source_id] = @ \ {ZMax(@)}]
          /\ Return(p, ZMax(redis[source_id]))
     ELSE /\ call' = [call EXCEPT ![p].pc = "select"]
          /\ lastOp' = [op |-> "zpopmax", caller |-> p, empty |-> TRUE]
          /\ UNCHANGED << redis, depth >>
  /\ UNCHANGED << engine_vars, statistics, blocked, fetch >>

\* get_proxy: redis.zpopmax(source_id) raises (the cache is unreachable). The
\* wrapper of the frame that raised skips its wrapper.depth -= 1. In a nested
\* frame the error is caught by "except Exception" of the frame that called
\* it, whose result returns through the frames above; in the outermost frame
\* it is raised to the caller of get_proxy.
ZPopMaxFails(p) ==
  /\ call[p].pc = "pop"
  /\ depth' = [depth EXCEPT ![p] = @ - (call[p].level - 1)]
  /\ call' = [call EXCEPT ![p] = NoCall]
  /\ lastOp' = [op |-> "get_proxy", caller |-> p, source_id |-> call[p].source_id,
                found |-> FALSE,
                result |-> IF call[p].level = 1 THEN "ConnectionError"
                           ELSE "Error retrieving proxy",
                level |-> call[p].level, batches |-> call[p].batches]
  /\ UNCHANGED << engine_vars, statistics, blocked, fetch, redis >>

\* send_batch_to_redis -> get_proxies_from_db up to the SELECT
SendBatchSelect(p) ==
  /\ call[p].pc = "select"
  /\ call' = [call EXCEPT ![p].pc = "update",
                          ![p].data = extract_query(blocked, call[p].source_id,
                                                    BatchAmount)]
  /\ lastOp' = [op |-> "select_batch", caller |-> p]
  /\ UNCHANGED << engine_vars, statistics, blocked, fetch, redis, depth >>

\* SendBatchToRedis with the nested call outside the try: the RecursionError
\* leaves every frame through "result = func(...)", no wrapper.depth -= 1 runs
SendBatchToRedis_propagates(p) ==
  /\ call[p].pc = "update"
  /\ LET source_id == call[p].source_id
         db_proxies == call[p].data
         done == [call EXCEPT ![p].batches = @ + 1, ![p].data = <<>>]
     IN /\ blocked' = update_query(blocked, source_id, BatchAmount)
        /\ redis' = push_proxy_to_redis(redis, source_id, db_proxies)
        /\ IF Len(db_proxies) = 0
           THEN /\ depth' = [depth EXCEPT ![p] = @ - call[p].level]
                /\ call' = [call EXCEPT ![p] = NoCall]
                /\ lastOp' = [op |-> "get_proxy", caller |-> p,
                              source_id |-> source_id, found |-> FALSE,
                              result |-> "No proxies available",
                              level |-> call[p].level, batches |-> done[p].batches]
           ELSE IF depth[p] = MaxDepth
           THEN /\ depth' = depth
                /\ call' = [call EXCEPT ![p] = NoCall]
                /\ lastOp' = [op |-> "get_proxy", caller |-> p,
                              source_id |-> source_id, found |-> FALSE,
                              result |-> "RecursionError",
                              level |-> call[p].level, batches |-> done[p].batches]
           ELSE /\ depth' = [depth EXCEPT ![p] = @ + 1]
                /\ call' = [done EXCEPT ![p].pc = "pop", ![p].level = @ + 1]
                /\ lastOp' = [op |-> "enter_get_proxy", caller |-> p]
  /\ UNCHANGED << engine_vars, statistics, fetch >>

\* SendBatchToRedis without the test of wrapper.depth against max_depth
SendBatchToRedis_unlimited(p) ==
  /\ call[p].pc = "update"
  /\ LET source_id == call[p].source_id
         db_proxies == call[p].data
         done == [call EXCEPT ![p].batches = @ + 1, ![p].data = <<>>]
     IN /\ blocked' = update_query(blocked, source_id, BatchAmount)
        /\ redis' = push_proxy_to_redis(redis, source_id, db_proxies)
        /\ IF Len(db_proxies) = 0
           THEN /\ depth' = [depth EXCEPT ![p] = @ - call[p].level]
                /\ call' = [call EXCEPT ![p] = NoCall]
                /\ lastOp' = [op |-> "get_proxy", caller |-> p,
                              source_id |-> source_id, found |-> FALSE,
                              result |-> "No proxies available",
                              level |-> call[p].level, batches |-> done[p].batches]
           ELSE /\ depth' = [depth EXCEPT ![p] = @ + 1]
                /\ call' = [done EXCEPT ![p].pc = "pop", ![p].level = @ + 1]
                /\ lastOp' = [op |-> "enter_get_proxy", caller |-> p]
  /\ UNCHANGED << engine_vars, statistics, fetch >>

\* the UPDATE, the pushes, batch_result, and the nested self.get_proxy(source_id)
\* up to its func(*args); RecursionError is caught by except Exception
SendBatchToRedis(p) ==
  /\ call[p].pc = "update"
  /\ LET source_id == call[p].source_id
         db_proxies == call[p].data
         done == [call EXCEPT ![p].batches = @ + 1, ![p].data = <<>>]
     IN /\ blocked' = update_query(blocked, source_id, BatchAmount)
        /\ redis' = push_proxy_to_redis(redis, source_id, db_proxies)
        /\ IF Len(db_proxies) = 0
           THEN /\ depth' = [depth EXCEPT ![p] = @ - call[p].level]
                /\ call' = [call EXCEPT ![p] = NoCall]
                /\ lastOp' = [op |-> "get_proxy", caller |-> p,
                              source_id |-> source_id, found |-> FALSE,
                              result |-> "No proxies available",
                              level |-> call[p].level, batches |-> done[p].batches]
           ELSE IF depth[p] = MaxDepth
           THEN /\ depth' = [depth EXCEPT ![p] = @ - call[p].level]
                /\ call' = [call EXCEPT ![p] = NoCall]
                /\ lastOp' = [op |-> "get_proxy", caller |-> p,
                              source_id |-> source_id, found |-> FALSE,
                              result |-> "Error retrieving proxy",
                              level |-> call[p].level, batches |-> done[p].batches]
           ELSE /\ depth' = [depth EXCEPT ![p] = @ + 1]
                /\ call' = [done EXCEPT ![p].pc = "pop", ![p].level = @ + 1]
                /\ lastOp' = [op |-> "enter_get_proxy", caller |-> p]
  /\ UNCHANGED << engine_vars, statistics, fetch >>

\* celery_worker.unblock_proxy: scheduler.send_batch_to_redis(sourceid, 1) from
\* the UPDATE of get_proxies_from_db on: the rows read are pushed
SendBatchTask(p) ==
  /\ fetch[p].pc = "selected"
  /\ blocked' = update_query(blocked, fetch[p].source_id, fetch[p].proxies_amount)
  /\ redis' = push_proxy_to_redis(redis, fetch[p].source_id, fetch[p].data)
  /\ fetch' = [fetch EXCEPT ![p].pc = "returned"]
  /\ lastOp' = [op |-> "send_batch_to_redis", caller |-> p, data |-> fetch[p].data]
  /\ UNCHANGED << engine_vars, statistics, depth, call >>

\* ----------------------------------------------------------------- Next
\* the sources the clients of the scenarios below subscribe to
LeaseKeys == {"1", "2"}
\* every record a pool of these sources can hold
Records ==
  {CacheRecord(Store[i]) : i \in {n \in 1..Len(Store) : Str(Store[n].sourceid) \in LeaseKeys}}
    \cup {SourceRecord(Store[i]) :
             i \in {n \in 1..Len(Store) : Str(Store[n].sourceid) \in LeaseKeys}}
    \cup AddBodies

TimerEntries == [proxy : Records, sid : LeaseKeys, ws : Sess]

\* ------------------------------------------------ the lease scenario
\* two clients of /ws/proxies holding the secret, the control routes, timers
LeaseSess == {"a", "b"}
LeaseSubs == {<<"1">>, <<"1", "2">>}
LeaseAdd ==
  {[id |-> 1, proxy |-> Plain("10.0.0.1:3128:u1:pw1"), sourceId |-> 1,
    usage_interval |-> "30"]}

NextLease ==
  \/ startup_event
  \/ refresh_proxy_pools
  \/ \E sid \in {"1"}, body \in LeaseAdd : add_proxy_to_pool(sid, body)
  \/ \E e \in TimerEntries : TimerFire(e)
  \/ \E s \in LeaseSess : Connect(s, "proxies", SECRET)
  \/ \E s \in LeaseSess : PeerDrop(s, "gone_wsd")
  \/ \E s \in LeaseSess, subs \in LeaseSubs : FirstFrame(s, "start", subs)
  \/ \E s \in LeaseSess : FirstFrameGone(s)
  \/ \E s \in LeaseSess : LoopExit(s)
  \/ \E s \in LeaseSess : RecvDisconnect(s)
  \/ \E s \in LeaseSess : RecvNone(s)
  \/ \E s \in LeaseSess : ProxyTaken(s, 1)
  \/ \E s \in LeaseSess : Pop(s)
  \/ \E s \in LeaseSess : Waiting(s)
  \/ \E s \in LeaseSess : SendArm(s)

Spec == Init /\ [][NextLease]_vars

\* ------------------------------------------------- the solo scenario
\* one client; the event loop runs every callback it was handed
NextSolo ==
  \/ startup_event
  \/ refresh_proxy_pools
  \/ \E sid \in {"1"}, body \in LeaseAdd : add_proxy_to_pool(sid, body)
  \/ \E e \in TimerEntries : TimerFire(e)
  \/ \E path \in Paths : Connect("a", path, SECRET)
  \/ \E mode \in {"gone_wsd", "gone_err"} : PeerDrop("a", mode)
  \/ \E subs \in LeaseSubs : FirstFrame("a", "start", subs)
  \/ FirstFrameGone("a")
  \/ LoopExit("a")
  \/ RecvDisconnect("a")
  \/ RecvNone("a")
  \/ \E proxy_id \in TakenIds : ProxyTaken("a", proxy_id)
  \/ Pop("a")
  \/ Waiting("a")
  \/ SendArm("a")

SpecSolo == Init /\ [][NextSolo]_vars

FairSolo == SpecSolo /\ \A e \in TimerEntries : WF_vars(TimerFire(e))

\* ------------------------------------------------ the silent scenario
\* one client that subscribes and then only listens: no inbound frame ever
\* arrives, every read of handle_incoming ends in its 0.1 s timeout
NextSilent ==
  \/ startup_event
  \/ \E sid \in {"1"}, body \in LeaseAdd : add_proxy_to_pool(sid, body)
  \/ \E e \in TimerEntries : TimerFire(e)
  \/ \E path \in Paths : Connect("a", path, SECRET)
  \/ \E mode \in {"gone_wsd", "gone_err"} : PeerDrop("a", mode)
  \/ \E subs \in LeaseSubs : FirstFrame("a", "start", subs)
  \/ FirstFrameGone("a")
  \/ LoopExit("a")
  \/ RecvDisconnect("a")
  \/ RecvNone("a")
  \/ Pop("a")
  \/ Waiting("a")
  \/ SendArm("a")

SpecSilent == Init /\ [][NextSilent]_vars

\* the event loop resumes the session's coroutine whenever its await is over
\* (the timeout of the read, the send, the sleep) and runs the callbacks
\* that are due
FairSilent ==
  /\ SpecSilent
  /\ WF_vars(\E e \in TimerEntries : TimerFire(e))
  /\ WF_vars(RecvNone("a") \/ Pop("a") \/ Waiting("a") \/ SendArm("a"))

\* ---------------------------------------------- the operator scenario
\* one client of /ws/proxies, and an operator who posts any of the bodies to
\* the pool of any source
\* the source ids the operator names ("4" has no row in the store)
OperatorKeys == {"1", "2", "4"}

NextOperator ==
  \/ startup_event
  \/ refresh_proxy_pools
  \/ \E sid \in OperatorKeys, body \in AddBodies : add_proxy_to_pool(sid, body)
  \/ \E e \in TimerEntries : TimerFire(e)
  \/ Connect("a", "proxies", SECRET)
  \/ PeerDrop("a", "gone_wsd")
  \/ \E subs \in LeaseSubs : FirstFrame("a", "start", subs)
  \/ FirstFrameGone("a")
  \/ LoopExit("a")
  \/ RecvDisconnect("a")
  \/ RecvNone("a")
  \/ Pop("a")
  \/ Waiting("a")
  \/ SendArm("a")

SpecOperator == Init /\ [][NextOperator]_vars

\* ----------------------------------------------- the restart scenario
\* one client of /ws/proxies and a broker that is stopped and started again
\* over the same Redis
NextRestart ==
  \/ startup_event
  \/ shutdown
  \/ refresh_proxy_pools
  \/ \E e \in TimerEntries : TimerFire(e)
  \/ Connect("a", "proxies", SECRET)
  \/ PeerDrop("a", "gone_wsd")
  \/ \E subs \in LeaseSubs : FirstFrame("a", "start", subs)
  \/ FirstFrameGone("a")
  \/ LoopExit("a")
  \/ RecvDisconnect("a")
  \/ RecvNone("a")
  \/ Pop("a")
  \/ Waiting("a")
  \/ SendArm("a")

SpecRestart == Init /\ [][NextRestart]_vars

\* --------------------------------------------- the handshake scenario
\* two clients, every token, both endpoints, every kind of first frame
HandshakeSess == {"a", "b"}

NextHandshake ==
  \/ startup_event
  \/ \E e \in TimerEntries : TimerFire(e)
  \/ \E s \in HandshakeSess, path \in Paths, token \in Tokens : Connect(s, path, token)
  \/ \E s \in HandshakeSess : PeerDrop(s, "gone_wsd")
  \/ \E s \in HandshakeSess, kind \in FrameKinds : FirstFrame(s, kind, <<"1">>)
  \/ \E s \in HandshakeSess : FirstFrameGone(s)
  \/ \E s \in HandshakeSess : LoopExit(s)
  \/ \E s \in HandshakeSess : RecvDisconnect(s)
  \/ \E s \in HandshakeSess : RecvNone(s)
  \/ \E s \in HandshakeSess : Pop(s)
  \/ \E s \in HandshakeSess : Waiting(s)
  \/ \E s \in HandshakeSess : SendArm(s)

SpecHandshake == Init /\ [][NextHandshake]_vars

\* --------------------------------------------- the broadcast scenario
\* three clients of /ws/proxy_multi reporting the proxies they take
NextBroadcast ==
  \/ startup_event
  \/ \E e \in TimerEntries : TimerFire(e)
  \/ \E s \in Sess : Connect(s, "proxy_multi", SECRET)
  \/ \E s \in Sess : PeerDrop(s, "gone_wsd")
  \/ \E s \in Sess, subs \in SubLists : FirstFrame(s, "start", subs)
  \/ \E s \in Sess : FirstFrameGone(s)
  \/ \E s \in Sess : LoopExit(s)
  \/ \E s \in Sess : RecvDisconnect(s)
  \/ \E s \in Sess : RecvNone(s)
  \/ \E s \in Sess, proxy_id \in {1, 9} : ProxyTaken(s, proxy_id)
  \/ \E s \in Sess : Pop(s)
  \/ \E s \in Sess : Waiting(s)
  \/ \E s \in Sess : SendArm(s)

SpecBroadcast == Init /\ [][NextBroadcast]_vars

\* ------------------------------------------------ the report scenario
\* one client of /ws/proxy_multi that reports on the proxies it was sent,
\* while records are added to the pool of source 1
NextReport ==
  \/ startup_event
  \/ \E body \in LeaseAdd : add_proxy_to_pool("1", body)
  \/ \E e \in TimerEntries : TimerFire(e)
  \/ Connect("a", "proxy_multi", SECRET)
  \/ PeerDrop("a", "gone_wsd")
  \/ \E subs \in SubLists : FirstFrame("a", "start", subs)
  \/ FirstFrameGone("a")
  \/ LoopExit("a")
  \/ RecvDisconnect("a")
  \/ RecvNone("a")
  \/ \E proxy_id \in ReportIds, status_code \in ReportCodes :
       ReportProxy("a", proxy_id, status_code)
  \/ \E proxy_id \in ReportIds, status_code \in ReportCodes :
       ReportProxyDown("a", proxy_id, status_code)
  \/ \E kind \in MalformedKinds : RecvMalformed("a", kind)
  \/ Pop("a")
  \/ Waiting("a")
  \/ SendArm("a")

SpecReport == Init /\ [][NextReport]_vars

\* ------------------------------------------------ the shared-pool scenario
\* two clients of /ws/proxy_multi reading the pool of source 1, which the
\* control routes add to and reload
SharedSess == {"a", "b"}

NextShared ==
  \/ startup_event
  \/ refresh_proxy_pools
  \/ \E body \in LeaseAdd : add_proxy_to_pool("1", body)
  \/ \E e \in TimerEntries : TimerFire(e)
  \/ \E s \in SharedSess : Connect(s, "proxy_multi", SECRET)
  \/ \E s \in SharedSess : PeerDrop(s, "gone_wsd")
  \/ \E s \in SharedSess : FirstFrame(s, "start", <<"1">>)
  \/ \E s \in SharedSess : FirstFrameGone(s)
  \/ \E s \in SharedSess : LoopExit(s)
  \/ \E s \in SharedSess : RecvDisconnect(s)
  \/ \E s \in SharedSess : RecvNone(s)
  \/ \E s \in SharedSess : Pop(s)
  \/ \E s \in SharedSess : Waiting(s)
  \/ \E s \in SharedSess : SendArm(s)

SpecShared == Init /\ [][NextShared]_vars

\* ------------------------------------------------- the refill scenario
\* the API process and a celery worker refill source 1 from the store
NextRefill ==
  \/ \E p \in Callers, proxies_amount \in Amounts : SelectRows(p, 1, proxies_amount)
  \/ \E p \in Callers : BlockRows(p)
  \/ \E id \in RowIds : UnblockRow(id)

SpecRefill == Init /\ [][NextRefill]_vars

\* ---------------------------------------------- the get_proxy scenario
\* two requests of /get_proxy for source 1, and the celery worker's unblock
NextSched ==
  \/ \E p \in Requests : GetProxy(p, 1)
  \/ \E p \in Requests : ZPopMax(p)
  \/ \E p \in Requests : SendBatchSelect(p)
  \/ \E p \in Requests : SendBatchToRedis(p)
  \/ \E id \in RowIds : UnblockRow(id)

SpecSched == Init /\ [][NextSched]_vars

\* a request that is inside get_proxy keeps running
FairSched ==
  SpecSched /\ \A p \in Requests :
    WF_vars(ZPopMax(p) \/ SendBatchSelect(p) \/ SendBatchToRedis(p))

\* ------------------------------------------- the unblock-task scenario
\* one request of /get_proxy for source 1 and the celery worker's task
NextTask ==
  \/ GetProxy("r1", 1)
  \/ ZPopMax("r1")
  \/ SendBatchSelect("r1")
  \/ SendBatchToRedis("r1")
  \/ SelectRows("celery", 1, 1)
  \/ SendBatchTask("celery")
  \/ \E id \in RowIds : UnblockRow(id)

SpecTask == Init /\ [][NextTask]_vars

\* ------------------------------------------------ the outage scenario
\* one worker process serving /get_proxy for source 1 while the cache is at
\* times unreachable
NextOutage ==
  \/ GetProxy("r1", 1)
  \/ ZPopMax("r1")
  \/ ZPopMaxFails("r1")
  \/ SendBatchSelect("r1")
  \/ SendBatchToRedis("r1")
  \/ \E id \in RowIds : UnblockRow(id)

SpecOutage == Init /\ [][NextOutage]_vars

\* ------------------------------------------------ the crypto scenario
\* one client of source 1; records whose credential is a string, a number,
\* empty or missing; the client library's decrypt_proxy applied to a payload
CryptoAdd ==
  { [id |-> 5, proxy |-> Number(8080), sourceId |-> 1, usage_interval |-> "30"] }
CryptoInputs ==
  {CacheRecord(Store[1]), SourceRecord(Store[2])} \cup AddBodies \cup CryptoAdd
    \cup { [id |-> 6, proxy |-> Plain(""), sourceId |-> 1, usage_interval |-> "30"] }
Secrets == {"", SECRET, "other"}
CryptoEntries == [proxy : CryptoInputs, sid : {"1"}, ws : {"a"}]

\* decrypt_proxy(encrypt_proxy(proxy_data, secret), secret2)
RoundTrip(proxy_data, secret, secret2) ==
  /\ lastOp' = [op |-> "round_trip", proxy |-> proxy_data, secret |-> secret,
                secret2 |-> secret2,
                encrypted |-> encrypt_proxy(proxy_data, secret),
                decrypted |-> decrypt_proxy(encrypt_proxy(proxy_data, secret), secret2)]
  /\ UNCHANGED << engine_vars, db_vars >>

NextCrypto ==
  \/ startup_event
  \/ \E body \in CryptoAdd : add_proxy_to_pool("1", body)
  \/ \E e \in CryptoEntries : TimerFire(e)
  \/ Connect("a", "proxy_multi", SECRET)
  \/ PeerDrop("a", "gone_wsd")
  \/ FirstFrame("a", "start", <<"1">>)
  \/ FirstFrameGone("a")
  \/ LoopExit("a")
  \/ RecvDisconnect("a")
  \/ RecvNone("a")
  \/ Pop("a")
  \/ Waiting("a")
  \/ SendArm("a")
  \/ \E proxy_data \in CryptoInputs, secret \in Secrets, secret2 \in Secrets :
       RoundTrip(proxy_data, secret, secret2)

SpecCrypto == Init /\ [][NextCrypto]_vars

\* ---------------------------------------------- the priority scenario
\* one client of /ws/proxies subscribed to source 3, whose two rows the store
\* returns lowest priority first
PriorityEntries ==
  [proxy : {CacheRecord(Store[i]) : i \in 1..Len(Store)}
             \cup {SourceRecord(Store[i]) : i \in 1..Len(Store)},
   sid : {"3"}, ws : {"a"}]

NextPriority ==
  \/ startup_event
  \/ refresh_proxy_pools
  \/ \E e \in PriorityEntries : TimerFire(e)
  \/ Connect("a", "proxies", SECRET)
  \/ PeerDrop("a", "gone_wsd")
  \/ FirstFrame("a", "start", <<"3">>)
  \/ FirstFrameGone("a")
  \/ LoopExit("a")
  \/ RecvDisconnect("a")
  \/ RecvNone("a")
  \/ Pop("a")
  \/ Waiting("a")
  \/ SendArm("a")

SpecPriority == Init /\ [][NextPriority]_vars

\* ================================================================ claims
ProxyIds == {Store[i].id : i \in 1..Len(Store)} \cup {b.id : b \in AddBodies}

\* the pending returns (with multiplicity) that satisfy Test
PendingCount(Test(_)) ==
  LET S == {e \in BagToSet(timers) : Test(e)} IN
  IF S = {} THEN 0 ELSE BagCardinality([e \in S |-> CopiesIn(e, timers)])

\* the positions over all pools that hold a record of this id
PoolCount(id) ==
  Cardinality({<<k, n>> \in SourceKeys \X (1..(MaxPool + MaxTimers + Len(Store))) :
                 n <= Len(proxy_pools[k]) /\ proxy_pools[k][n].id = id})

TransitCount(id) ==
  Cardinality({w \in Sess : ws[w].transit # <<>> /\ ws[w].transit[1].proxy.id = id})

\* C1: a record that was sent as proxy_available is not sent again, to any
\* session, before the cool-down timer armed by that send has fired: right
\* after a successful send, no earlier send of the same proxy to a client
\* that received it is still cooling.
C1_NoRedispatchWhileCooling ==
  (lastOp.op = "proxy_available" /\ lastOp.sent) =>
    PendingCount(LAMBDA e : e.proxy.id = lastOp.proxy.id /\ peer[e.ws] = "up")
      <= (IF lastOp.armed THEN 1 ELSE 0)

\* C2: every proxy id is in at most one place, at most once: a pool, in
\* transit between pop and send, or on a pending cool-down return.
C2_ExclusiveLeasing ==
  \A id \in ProxyIds :
    PoolCount(id) + TransitCount(id) + PendingCount(LAMBDA e : e.proxy.id = id) <= 1

\* C3: every dispatch (a pop followed by the send attempt) arms exactly one
\* cool-down timer, never zero and never two, whether or not the send
\* succeeded.
C3_ReturnOnce ==
  [][\A s \in Sess :
       (ws[s].pc = "sending" /\ ws'[s].pc # "sending") =>
         /\ BagCardinality(timers') = BagCardinality(timers) + 1
         /\ \E e \in BagToSet(timers') :
              /\ e.proxy = ws[s].transit[1].proxy
              /\ e.sid = ws[s].transit[1].sid
              /\ CopiesIn(e, timers') = CopiesIn(e, timers) + 1]_vars

\* the callback of timer e has just run: its record is the tail of its pool
Returned(e) ==
  /\ lastOp.op = "timer_fire"
  /\ lastOp.timer = e
  /\ proxy_pools[e.sid] # <<>>
  /\ proxy_pools[e.sid][Len(proxy_pools[e.sid])] = e.proxy

\* C4: a pending cool-down return is never cancelled or lost, whatever
\* becomes of the session it was armed for (closed by the client, detached
\* after a failed send): the record is eventually appended to its pool.
C4_ReturnSurvivesClose ==
  \A e \in TimerEntries : BagIn(e, timers) ~> Returned(e)

\* C4 witness: a return fired for a session that had already closed
C4_Witness ==
  /\ lastOp.op = "timer_fire"
  /\ ws[lastOp.timer.ws].pc = "closed"
  /\ Returned(lastOp.timer)

\* C5: on both streaming paths a connection whose token is missing or
\* differs from the secret is never attached to the registry, never causes
\* a pool pop and never receives a proxy_available frame.
C5_OnlyAuthenticatedStream ==
  \A s \in Sess :
    (ws[s].pc # "idle" /\ ws[s].token # SECRET) =>
      /\ ~Attached(active_connections, s)
      /\ ws[s].transit = <<>>
      /\ ~(lastOp.op = "proxy_available" /\ lastOp.ws = s)

\* C6: a connection opened with a wrong token is sent one error frame and
\* closed with code 1008, and is not attached to the registry.
C6_BadAuthRejected ==
  \A s \in Sess :
    (ws[s].pc # "idle" /\ ws[s].token = "wrong") =>
      /\ ws[s].pc = "closed"
      /\ ws[s].frames = <<"error">>
      /\ ws[s].close_code = 1008
      /\ ~Attached(active_connections, s)

\* C7: a first frame that is malformed (not a JSON object, or an object
\* that fails the endpoint's test) gets the connection closed with code
\* 1008 and the session is never attached: it never reaches STREAMING.
C7_MalformedStartRejected ==
  (lastOp.op = "first_frame" /\ lastOp.kind \in {"nonobject", "bad_start"}) =>
    /\ ws[lastOp.ws].pc = "closed"
    /\ ws[lastOp.ws].close_code = 1008
    /\ ~Attached(active_connections, lastOp.ws)
    /\ ws[lastOp.ws].transit = <<>>

\* C8: the proxy_in_use frames of one proxy_taken go to exactly the attached
\* sessions whose subscription contains the proxy's source, the sender
\* excluded: each of them (whose client is there to receive) gets one
\* frame, and nobody else gets any.
C8_SubscriptionLocality ==
  (lastOp.op = "proxy_taken" /\ lastOp.source # "") =>
    \A w \in Sess :
      lastOp.delivered[w] = IF w \in lastOp.peers /\ peer[w] = "up" THEN 1 ELSE 0

\* the session holds the proxy on lease: it was dispatched to it and the
\* cool-down return is still pending
LeaseOf(s, proxy_id) ==
  {e \in BagToSet(timers) : e.ws = s /\ e.proxy.id = proxy_id}

\* C9: proxy_taken for a proxy the sender holds on lease makes the server
\* send proxy_in_use to every other attached session whose subscription
\* includes the proxy's source.
C9_LeasedTakenIsBroadcast ==
  lastOp.op = "proxy_taken" =>
    \A e \in LeaseOf(lastOp.ws, lastOp.proxy_id) :
      \A w \in Sess \ {lastOp.ws} :
        (Attached(active_connections, w) /\ InSeq(ws[w].source_ids, e.sid)
           /\ peer[w] = "up") => lastOp.delivered[w] >= 1

\* C10: handling a proxy_taken frame leaves every pool and every pending
\* cool-down return as it was, for a known or an unknown proxy_id.
C10_TakenIsAdvisory ==
  [][lastOp'.op = "proxy_taken" =>
       UNCHANGED << proxy_pools, pool_keys, timers >>]_vars

\* C10 witness: a proxy_taken whose proxy was found in a pool and whose
\* notice reached a peer
C10_Witness ==
  /\ lastOp.op = "proxy_taken"
  /\ lastOp.source # ""
  /\ \E w \in Sess : lastOp.delivered[w] > 0

\* C11: every report_acknowledged frame with success = true sent in reply to
\* report_proxy{proxy_id, status_code} goes with exactly one row
\* {proxyid: proxy_id, statusid: status_code} that the same handling
\* committed to statistics before the frame was sent.
C11_AckedReportIsCommitted ==
  [][(lastOp'.op = "report_proxy" /\ lastOp'.acked /\ lastOp'.success) =>
       statistics' = Append(statistics, [proxyid |-> lastOp'.proxy_id,
                                         statusid |-> lastOp'.status_code])]_vars

\* C11 witness: a second report was acknowledged with success
C11_Witness ==
  /\ lastOp.op = "report_proxy"
  /\ lastOp.acked /\ lastOp.success
  /\ Len(statistics) = 2

\* C12: a report_proxy frame whose proxy_id has no row in proxies is answered
\* with report_acknowledged{success: false, message: "Proxy with ID <id> does
\* not exist"} and adds no row to statistics.
C12_UnknownProxyRefused ==
  [][(lastOp'.op = "report_proxy" /\ lastOp'.proxy_id \notin StoreIds) =>
       /\ statistics' = statistics
       /\ lastOp'.acked
       /\ ~lastOp'.success
       /\ lastOp'.message.text = "Proxy with ID <proxy_id> does not exist"
       /\ lastOp'.message.proxy_id = lastOp'.proxy_id]_vars

\* C12 witness: a report for a proxy that does not exist was refused while
\* statistics already held a row
C12_Witness ==
  /\ lastOp.op = "report_proxy"
  /\ lastOp.proxy_id = 999999
  /\ lastOp.acked /\ ~lastOp.success
  /\ statistics # <<>>

\* C13: a report_proxy frame for an existing proxy whose status_code has no
\* row in statuses is accepted: the row is committed with that code and the
\* acknowledgement has success = true.
C13_UnknownCodeAccepted ==
  [][(lastOp'.op = "report_proxy" /\ lastOp'.proxy_id \in StoreIds
        /\ lastOp'.status_code \notin Statuses) =>
       /\ lastOp'.success
       /\ statistics' = Append(statistics, [proxyid |-> lastOp'.proxy_id,
                                            statusid |-> lastOp'.status_code])]_vars

\* some pool of the session's subscription holds a record
SomePool(s) ==
  \E i \in 1..Len(ws[s].source_ids) : proxy_pools[ws[s].source_ids[i]] # <<>>

\* C14: when the socket is found not connected after a record was popped and
\* before it is sent, the record is pushed back to the front of its pool,
\* no cool-down timer is armed, the session terminates, and every pool is
\* what it was before the pop (same records, same order).
C14_RestoreOnNotConnected ==
  [][\A s \in Sess :
       (/\ ws[s].pc = "dispatch" /\ ws'[s].pc # "dispatch"
        /\ SomePool(s)
        /\ ~is_connected(connection_states, s)) =>
         /\ proxy_pools' = proxy_pools
         /\ timers' = timers
         /\ ws'[s].pc = "closed"
         /\ ws'[s].transit = <<>>]_vars

\* C14 witness: a popped record was pushed back in front of another record
C14_Witness ==
  /\ lastOp.op = "restore"
  /\ ws[lastOp.ws].pc = "closed"
  /\ Len(proxy_pools[lastOp.sid]) >= 2
  /\ Head(proxy_pools[lastOp.sid]) = lastOp.proxy

\* C15: when the send of a proxy_available frame fails because the peer is
\* gone, the session is detached from the registry, the popped record is put
\* back into its pool instead of being leased (no cool-down timer), and the
\* session terminates.
C15_FailedSendRestores ==
  [][\A s \in Sess :
       (ws[s].pc = "sending" /\ ws'[s].pc # "sending" /\ peer[s] # "up") =>
         /\ ~Attached(active_connections', s)
         /\ timers' = timers
         /\ proxy_pools' = [proxy_pools EXCEPT ![ws[s].transit[1].sid] =
                              <<ws[s].transit[1].proxy>> \o @]
         /\ ws'[s].pc = "closed"]_vars

\* C16: once a streaming session has terminated, by whichever path, its
\* handle is in no list of the registry, it holds no popped record, and it
\* takes no further step: nothing is popped on its behalf.
C16_ClosedIsDetached ==
  [][\A s \in Sess :
       /\ ws'[s].pc = "closed" =>
            /\ ~Attached(active_connections', s)
            /\ ws'[s].transit = <<>>
       /\ ws[s].pc = "closed" =>
            /\ ws'[s] = ws[s]
            /\ ~(lastOp'.op \in {"pop", "restore", "proxy_available"}
                   /\ lastOp'.ws = s)]_vars

\* C16 witness: the loop found the socket not connected (after a failed
\* send) and ended, while a return armed for the session is still pending
C16_Witness ==
  /\ lastOp.op = "loop_exit"
  /\ ws[lastOp.ws].pc = "closed"
  /\ \E e \in BagToSet(timers) : e.ws = lastOp.ws

\* the step is a bulk load of the pools (startup, GET /proxies/refresh, the
\* subscription load of /ws/proxies), which rebuilds them in store order
BulkLoad == lastOp'.op \in {"startup", "refresh", "first_frame"}

NextFrom(source_ids, k) ==
  LET n == Len(source_ids)
      Off(i) == (i - k - 1 + n) % n
      Full == {i \in 1..n : proxy_pools[source_ids[i]] # <<>>}
  IN CHOOSE i \in Full : \A j \in Full : Off(i) <= Off(j)

\* C18: across the sources of one session the dispatcher rotates through
\* the subscription list: after serving the source at position k, the next
\* tick starts at position k + 1 (wrapping), so no subscribed source with a
\* non-empty pool is passed over for an earlier one. (Checked on the ticks
\* that follow a dispatch directly, with a report frame in between.)
C18_RotatesThroughSources ==
  [][\A s \in Sess :
       (/\ ws[s].pc = "dispatch" /\ ws'[s].pc = "sending"
        /\ lastOp.op = "report_proxy" /\ lastOp.ws = s /\ lastOp.after # "") =>
         ws'[s].transit[1].sid =
           ws[s].source_ids[NextFrom(ws[s].source_ids,
                                     IndexIn(ws[s].source_ids, lastOp.after, 1))]]_vars

\* C19: in each tick of a connected session's dispatch loop the session
\* sends a waiting frame if and only if the pool of every subscribed source
\* is empty or absent; otherwise it pops exactly one record and sends
\* exactly one proxy_available frame, which carries that record.
C19_WaitingIffAllEmpty ==
  [][\A s \in Sess :
       /\ (/\ ws[s].pc = "dispatch" /\ ws'[s].pc # "dispatch"
           /\ is_connected(connection_states, s)) =>
            IF SomePool(s)
            THEN /\ lastOp'.op = "pop" /\ lastOp'.ws = s
                 /\ ws'[s].pc = "sending"
                 /\ \E k \in SourceKeys :
                      /\ InSeq(ws[s].source_ids, k)
                      /\ proxy_pools[k] # <<>>
                      /\ proxy_pools' = [proxy_pools EXCEPT ![k] = Tail(@)]
                      /\ ws'[s].transit = <<[proxy |-> Head(proxy_pools[k]),
                                             sid |-> k]>>
            ELSE /\ lastOp'.op = "waiting" /\ lastOp'.ws = s
                 /\ lastOp'.sent = (peer[s] = "up")
                 /\ ws'[s].transit = <<>>
                 /\ proxy_pools' = proxy_pools
       /\ (ws[s].pc = "sending" /\ ws'[s].pc # "sending") =>
            /\ lastOp'.op = "proxy_available" /\ lastOp'.ws = s
            /\ lastOp'.proxy = ws[s].transit[1].proxy
            /\ lastOp'.sent = (peer[s] = "up")
            /\ ws'[s].transit = <<>>
            /\ proxy_pools' = proxy_pools]_vars

\* C19 witness: a session subscribed to two sources found both pools empty
\* and was sent the waiting frame
C19_Witness ==
  /\ lastOp.op = "waiting" /\ lastOp.sent
  /\ Len(ws[lastOp.ws].source_ids) = 2
  /\ BagCardinality(timers) > 0
  /\ \A k \in LeaseKeys : proxy_pools[k] = <<>>

\* the ids of the rows a fetch has read and will return
FetchedIds(p) == {fetch[p].data[i].id : i \in 1..Len(fetch[p].data)}

\* C20: two concurrent refill fetches for the same source never both return
\* the same proxy row: two calls of get_proxies_from_db that are in progress
\* at the same time hold disjoint sets of rows.
C20_FetchAndBlockAtomic ==
  \A p, q \in Callers :
    (p # q /\ fetch[p].pc = "selected" /\ fetch[q].pc = "selected"
       /\ fetch[p].source_id = fetch[q].source_id) =>
      FetchedIds(p) \cap FetchedIds(q) = {}

\* the store batch fetches in progress for a source: the SELECT has run, the
\* UPDATE has not
BatchesInProgress(source_id) ==
  {p \in Requests : call[p].pc = "update" /\ call[p].source_id = source_id}
    \cup {p \in Callers : fetch[p].pc = "selected" /\ fetch[p].source_id = source_id}

\* C21: refill is serialized per source: at no instant are two store batch
\* fetches for the same source in progress, whether they come from requests
\* of /get_proxy that found the set empty or from the unblock task.
C21_RefillSerializedPerSource ==
  \A source_id \in SchedSources : Cardinality(BatchesInProgress(source_id)) <= 1

\* what get_proxy hands back when it has no record
Sentinels == {"No proxies available", "Error retrieving proxy", "RecursionError"}

\* C22: a top-level get_proxy call always terminates, and it makes at most 10
\* nested get_proxy invocations and at most 10 store batch fetches, whatever
\* the other request pops in between; it returns a record or a sentinel.
C22_GetProxyTerminates ==
  /\ [](\A p \in Requests : call[p].level <= 10 /\ call[p].batches <= 10)
  /\ [](lastOp.op = "get_proxy" =>
          /\ lastOp.level <= 10 /\ lastOp.batches <= 10
          /\ IF lastOp.found
             THEN \E i \in 1..Len(ProxyRows) : lastOp.result = ProxyRows[i]
             ELSE lastOp.result \in Sentinels)
  /\ \A p \in Requests : (call[p].pc # "idle") ~> (call[p].pc = "idle")

\* a call that found the set empty ten times over and stopped at the limit
C22_Witness ==
  /\ lastOp.op = "get_proxy"
  /\ lastOp.level = 10 /\ lastOp.batches = 10
  /\ lastOp.result = "Error retrieving proxy"

HasCredential(proxy_data) ==
  /\ "proxy" \in DOMAIN proxy_data
  /\ CanEncode(proxy_data.proxy) /\ Truthy(proxy_data.proxy)

\* C23: for a record with a non-empty credential and a non-empty secret,
\* decrypt_proxy(encrypt_proxy(p, k), k) is p again, with the plaintext
\* credential and no _encrypted flag, and encrypt_proxy(p, k) carries
\* _encrypted = true and a credential that differs from the plaintext.
C23_RoundTrip ==
  (/\ lastOp.op = "round_trip"
   /\ HasCredential(lastOp.proxy)
   /\ lastOp.secret # "" /\ lastOp.secret2 = lastOp.secret) =>
    /\ lastOp.decrypted = lastOp.proxy
    /\ "_encrypted" \notin DOMAIN lastOp.decrypted
    /\ "_encrypted" \in DOMAIN lastOp.encrypted
    /\ lastOp.encrypted._encrypted = TRUE
    /\ lastOp.encrypted.proxy # lastOp.proxy.proxy

\* the cached record of proxy 1 encrypted and decrypted under the secret
C23_Witness ==
  /\ lastOp.op = "round_trip"
  /\ lastOp.proxy = CacheRecord(Store[1])
  /\ lastOp.secret = SECRET /\ lastOp.secret2 = SECRET
  /\ lastOp.encrypted # lastOp.proxy
  /\ lastOp.decrypted = lastOp.proxy

\* a record encrypt_proxy cannot encrypt: its credential has no encode()
EncryptionFails(proxy_data) ==
  /\ "proxy" \in DOMAIN proxy_data
  /\ Truthy(proxy_data.proxy) /\ ~CanEncode(proxy_data.proxy)

\* C24: when the encryption of a popped record fails, or no secret is
\* configured, the dispatch still happens: the frame carries the record as
\* it was popped, without the _encrypted flag, the cool-down timer is armed
\* as usual, and the session goes on to its next round.
C24_EncryptionFailureSendsOriginal ==
  /\ \A proxy_data \in CryptoInputs : encrypt_proxy(proxy_data, "") = proxy_data
  /\ (lastOp.op = "proxy_available" /\ EncryptionFails(lastOp.proxy)) =>
       /\ lastOp.payload = lastOp.proxy
       /\ "_encrypted" \notin DOMAIN lastOp.payload
       /\ lastOp.armed
       /\ BagIn([proxy |-> lastOp.proxy, sid |-> lastOp.sid, ws |-> lastOp.ws],
                timers)
       /\ ws[lastOp.ws].pc = "loop"
       /\ lastOp.sent => is_connected(connection_states, lastOp.ws)

\* the record with a numeric credential sent to the client as it is
C24_Witness ==
  /\ lastOp.op = "proxy_available" /\ lastOp.sent
  /\ EncryptionFails(lastOp.proxy)
  /\ lastOp.payload = lastOp.proxy
  /\ ws[lastOp.ws].pc = "loop"

\* C25: POST /proxies/pools/{source_id}/add puts the record at the tail of
\* the pool of source_id, reports the new pool length, and its pool_updated
\* frame reaches every attached session whose subscription contains
\* source_id (and whose client is there to receive), the sessions
\* subscribed to several sources included.
C25_AddReachesEverySubscriber ==
  lastOp.op = "add" =>
    LET pool == proxy_pools[lastOp.source_id] IN
    /\ pool # <<>> /\ pool[Len(pool)] = lastOp.proxy
    /\ lastOp.pool_size = Len(pool)
    /\ \A w \in Sess :
         (Attached(active_connections, w) /\ peer[w] = "up"
            /\ InSeq(ws[w].source_ids, lastOp.source_id)) =>
           lastOp.delivered[w] >= 1

\* C26: the records a subscription over /ws/proxies loads into the pool of a
\* subscribed source are rows that were blocked = false in the store, at
\* most N = 10 of them, and the load marks each of them blocked = true.
C26_SubscriptionRefillMarksBlocked ==
  [][(lastOp'.op = "first_frame" /\ lastOp'.kind \in {"start", "start_int"}
        /\ ws[lastOp'.ws].path = "proxies") =>
       \A sid \in SourceKeys :
         (InSeq(ws'[lastOp'.ws].source_ids, sid) /\ RowsOf(sid) # <<>>) =>
           /\ Len(proxy_pools'[sid]) <= BatchAmount
           /\ \A i \in 1..Len(proxy_pools'[sid]) :
                /\ ~blocked[proxy_pools'[sid][i].id]
                /\ blocked'[proxy_pools'[sid][i].id]]_vars

\* C29: a store failure while a report is saved (the store cannot be
\* reached, or the insert breaks a constraint) is not fatal: the reply is
\* report_acknowledged with success = false and the error's text, statistics
\* gets no row, and the session stays attached and goes on to dispatch.
C29_StoreFailureNotFatal ==
  [][(\/ lastOp'.op = "report_store_down"
      \/ lastOp'.op = "report_proxy" /\ lastOp'.message = ErrorText) =>
       /\ statistics' = statistics
       /\ lastOp'.acked /\ ~lastOp'.success
       /\ lastOp'.message \in {ErrorText, DownText}
       /\ Attached(active_connections', lastOp'.ws)
       /\ is_connected(connection_states', lastOp'.ws)
       /\ ws'[lastOp'.ws].pc = "dispatch"]_vars

\* a report refused because the store was down, after one that was saved
C29_Witness ==
  /\ lastOp.op = "report_store_down"
  /\ lastOp.acked /\ ~lastOp.success
  /\ Len(statistics) = 1
  /\ Attached(active_connections, lastOp.ws)

\* C30: a malformed inbound frame received while streaming (not JSON, not an
\* object, or an unrecognised action) is answered with exactly one error
\* frame; the session stays attached and goes on to dispatch, and no pool
\* changes.
C30_MalformedFrameAnswered ==
  [][lastOp'.op = "recv_malformed" =>
       /\ lastOp'.replies = <<"error">>
       /\ Attached(active_connections', lastOp'.ws)
       /\ ws'[lastOp'.ws].pc = "dispatch"
       /\ UNCHANGED << proxy_pools, pool_keys >>]_vars

\* the priority the store holds for a proxy id
PriorityOf(proxy_id) ==
  LET i == CHOOSE n \in 1..Len(Store) : Store[n].id = proxy_id IN Store[i].priority

\* C27: after a pool was refilled at subscription time the subscribed session
\* gets the refilled records in descending priority order: the refill leaves
\* the pool sorted by descending priority, and a lease taken from a pool that
\* holds the refilled records is the record of the highest priority in it.
C27_RefilledInPriorityOrder ==
  [][/\ (lastOp'.op = "first_frame" /\ lastOp'.kind = "start"
           /\ ws[lastOp'.ws].path = "proxies") =>
          \A sid \in SourceKeys :
            InSeq(ws'[lastOp'.ws].source_ids, sid) =>
              \A i, j \in 1..Len(proxy_pools'[sid]) :
                i < j => PriorityOf(proxy_pools'[sid][i].id)
                           >= PriorityOf(proxy_pools'[sid][j].id)
     /\ \A sid \in SourceKeys :
          (lastOp'.op = "pop" /\ lastOp'.sid = sid
             /\ proxy_pools[sid] = MapSeq(RowsOf(sid), SourceRecord)) =>
            \A i \in 1..Len(proxy_pools[sid]) :
              PriorityOf(proxy_pools[sid][i].id) <= PriorityOf(lastOp'.proxy.id)]_vars


\* C31: a proxy_taken broadcast is never cut short and skips no peer: the
\* walk over the registry runs to its end, and every session that was
\* attached and subscribed to the proxy's source when the broadcast began
\* (and whose client is still there to receive) was sent its proxy_in_use,
\* whatever sessions detached from the registry while the sends were going on.
C31_BroadcastSurvivesDetach ==
  (lastOp.op = "proxy_taken" /\ lastOp.source # "") =>
    /\ ~lastOp.aborted
    /\ \A w \in lastOp.peers : peer[w] = "up" => lastOp.delivered[w] >= 1


\* the session is in its streaming loop and its client is there
Streaming(s) ==
  /\ ws[s].pc \in {"loop", "dispatch", "sending"}
  /\ is_connected(connection_states, s)
  /\ peer[s] = "up"

\* C32: a client that sends no frame after subscribing is still served:
\* while it stays connected and one of its subscribed pools is non-empty,
\* the session eventually dispatches a proxy_available frame to it.
C32_SilentClientIsServed ==
  (Streaming("a") /\ Servable(ws["a"].source_ids) # <<>>)
    ~> \/ lastOp.op = "proxy_available" /\ lastOp.ws = "a" /\ lastOp.sent
       \/ ~Streaming("a")
       \/ Servable(ws["a"].source_ids) = <<>>

\* C32 witness: a second lease in a row dispatched to the silent client
C32_Witness ==
  /\ lastOp.op = "proxy_available"
  /\ lastOp.ws = "a"
  /\ lastOp.sent
  /\ Streaming("a")
  /\ \E e \in BagToSet(timers) : e.ws = "a" /\ e.proxy # lastOp.proxy


\* C33: the step that attaches a session to the registry, on either
\* streaming path, leaves every source of its subscription with a pool
\* entry, and has refilled every subscribed pool that was empty or absent
\* (so that such a pool holds the store's records of its source).
C33_AttachEnsuresPools ==
  [][\A s \in Sess :
       (lastOp'.op = "first_frame" /\ lastOp'.ws = s
          /\ Attached(active_connections', s)) =>
         \A i \in 1..Len(ws'[s].source_ids) :
           LET sid == ws'[s].source_ids[i] IN
             /\ InSeq(pool_keys', sid)
             /\ (~InSeq(pool_keys, sid) \/ proxy_pools[sid] = <<>>) =>
                  proxy_pools'[sid] = MapSeq(RowsOf(sid), SourceRecord)]_vars


\* the request's call stands at the nested self.get_proxy with the depth
\* counter at the limit: the wrapper is about to raise RecursionError
AtDepthLimit(p) ==
  /\ call[p].pc = "update"
  /\ Len(call[p].data) > 0
  /\ depth[p] = MaxDepth

\* C34: when the depth limit is hit inside get_proxy's refill, nothing is
\* raised to the caller: the step ends the top-level call with the
\* no-proxy/error result, and every frame of the call has unwound (the depth
\* counter is back where the call found it).
C34_DepthLimitIsCaught ==
  [][\A p \in Requests :
       (AtDepthLimit(p) /\ call'[p] # call[p]) =>
         /\ call'[p] = NoCall
         /\ lastOp'.op = "get_proxy" /\ lastOp'.caller = p
         /\ ~lastOp'.found
         /\ lastOp'.result \in {"No proxies available", "Error retrieving proxy"}
         /\ depth'[p] = depth[p] - call[p].level]_vars

\* C34 witness: a call that ran into the limit has returned the error result
\* and left the depth counter at zero
C34_Witness ==
  /\ lastOp.op = "get_proxy"
  /\ ~lastOp.found
  /\ lastOp.result = "Error retrieving proxy"
  /\ call[lastOp.caller] = NoCall
  /\ depth[lastOp.caller] = 0


\* C35: the rows a get_proxies_from_db call returns are exactly the rows
\* whose blocked flag its UPDATE turned from false to true, whatever other
\* calls on the same source ran in between.
C35_ReturnedAreTheBlocked ==
  [][lastOp'.op = "get_proxies_from_db" =>
       {lastOp'.data[i].id : i \in 1..Len(lastOp'.data)}
         = {id \in RowIds : ~blocked[id] /\ blocked'[id]}]_vars


\* C36: a record goes through a lease cycle unchanged: the record popped is
\* the head of its pool, the callback armed by the dispatch holds that very
\* record (encrypt_proxy worked on a copy: plaintext credential, no
\* _encrypted flag), and the callback appends it as it is, so that no pool
\* ever holds an encrypted record.
C36_LeaseCycleKeepsRecord ==
  /\ [][/\ lastOp'.op = "pop" =>
             /\ lastOp'.proxy = Head(proxy_pools[lastOp'.sid])
             /\ ws'[lastOp'.ws].transit[1].proxy = lastOp'.proxy
        /\ (lastOp'.op = "proxy_available" /\ lastOp'.armed) =>
             timers' = timers (+) SetToBag({[proxy |-> ws[lastOp'.ws].transit[1].proxy,
                                             sid |-> lastOp'.sid, ws |-> lastOp'.ws]})
        /\ lastOp'.op = "timer_fire" =>
             proxy_pools'[lastOp'.timer.sid]
               = Append(proxy_pools[lastOp'.timer.sid], lastOp'.timer.proxy)]_vars
  /\ [](\A k \in SourceKeys : \A i \in 1..Len(proxy_pools[k]) :
          "_encrypted" \notin DOMAIN proxy_pools[k][i])
  /\ [](\A e \in BagToSet(timers) : "_encrypted" \notin DOMAIN e.proxy)

\* C36 witness: a record whose payload went out encrypted has come back to
\* the tail of its pool with its plaintext credential
C36_Witness ==
  /\ lastOp.op = "timer_fire"
  /\ HasCredential(lastOp.timer.proxy)
  /\ encrypt_proxy(lastOp.timer.proxy, SECRET) # lastOp.timer.proxy
  /\ proxy_pools[lastOp.timer.sid] # <<>>
  /\ proxy_pools[lastOp.timer.sid][Len(proxy_pools[lastOp.timer.sid])] = lastOp.timer.proxy


\* C37: every record in the pool of a source carries that source's id, and
\* an operation on the pool of one source (an add, a cool-down return, the
\* load of a subscription) leaves the pools of the other sources as they were.
C37_PoolsHoldOwnSource ==
  /\ [](\A k \in SourceKeys : \A i \in 1..Len(proxy_pools[k]) :
          Str(proxy_pools[k][i].sourceId) = k)
  /\ [][/\ lastOp'.op = "add" =>
             \A k \in SourceKeys \ {lastOp'.source_id} : proxy_pools'[k] = proxy_pools[k]
        /\ lastOp'.op = "timer_fire" =>
             \A k \in SourceKeys \ {lastOp'.timer.sid} : proxy_pools'[k] = proxy_pools[k]
        /\ lastOp'.op = "first_frame" =>
             \A k \in SourceKeys :
               InSeq(ws'[lastOp'.ws].source_ids, k) \/ proxy_pools'[k] = proxy_pools[k]]_vars


\* the sources that have rows in the store
StoredSources == {k \in SourceKeys : RowsOf(k) # <<>>}

\* C38: when GET /proxies/refresh has completed, the pool of every source
\* holds exactly the records the refreshed cache holds for that source (none
\* for a source without rows in the store), and the pool count returned is
\* the number of sources with records.
C38_RefreshMirrorsCache ==
  lastOp.op = "refresh" =>
    /\ \A k \in SourceKeys : proxy_pools[k] = cache.source[k]
    /\ \A k \in SourceKeys \ StoredSources : proxy_pools[k] = <<>>
    /\ lastOp.pools = Cardinality(StoredSources)


\* C39: the depth counter of get_proxy is back at its pre-call value after
\* every call, returned or raised: between calls it is zero, and so no call
\* is refused at its entry for the depth limit.
C39_DepthRestored ==
  /\ \A p \in Requests : call[p].pc = "idle" => depth[p] = 0
  /\ ~(lastOp.op = "get_proxy" /\ lastOp.level = 0)


\* how many records of a list carry the id
CountId(list, id) == Cardinality({i \in 1..Len(list) : list[i].id = id})

\* C40: load_all_proxies is idempotent: when the startup load has run, once or
\* again over a cache that was not cleared, every proxy of the store appears
\* exactly once in proxies:all, in the proxies:source list of its source and
\* in the proxies:priority list of its band.
C40_LoadIsIdempotent ==
  lastOp.op = "startup" =>
    \A i \in 1..Len(Store) :
      /\ CountId(cache.all, Store[i].id) = 1
      /\ CountId(cache.source[Str(Store[i].sourceid)], Store[i].id) = 1
      /\ CountId(cache.priority[PriorityGroup(Store[i])], Store[i].id) = 1

====
